---- MODULE Spec2Model ----
(***************************************************************************)
(* Plex Media Server Manager: one PlexServer object (plex_server.py), its  *)
(* worker thread and command queue, the plex.tv token, the failure         *)
(* counter, and the reconciliation of the poll's session list against the *)
(* registered client devices (plugin.py, plex_client.py,                   *)
(* plex_media_container.py).                                               *)
(***************************************************************************)
EXTENDS Integers, Sequences, FiniteSets, TLC

\* ------------------------------------------------------------------ bounds
\* longest session list / client list a response carries
MaxSessions == 2
\* most commands waiting in the queue (queue.Queue itself is unbounded)
MaxQueue == 2
\* the ghost count of failed polls saturates here
MaxStreak == 5
\* most command IDs one client object hands out
MaxCommandId == 2

\* ------------------------------------------------------- program constants
MAX_BAD_CALLS == 5

\* ------------------------------------------------------------ dictionaries
EmptyDict == [k \in {} |-> ""]

\* dict.get(key, default)
Get(d, k, default) == IF k \in DOMAIN d THEN d[k] ELSE default

\* dev.updateStatesOnServer(list): every listed key the device defines is set
UpdateStates(st, upd) ==
  [k \in DOMAIN st |-> IF k \in DOMAIN upd THEN upd[k] ELSE st[k]]

\* ------------------------------------------------------- device registry
\* The client sub-devices the host knows, with their pluginProps: two
\* Identified devices configured with the same machine ID, and two slots.
Devs == {"c1", "c2", "s1", "s2"}
NoDev == "-"

deviceTypeId(d) ==
  IF d \in {"c1", "c2"} THEN "plexMediaClient" ELSE "plexMediaClientSlot"

\* pluginProps['plexClientId']: machine ID, or the slot label
plexClientId(d) ==
  CASE d = "c1" -> "mA"
    [] d = "c2" -> "mA"
    [] d = "s1" -> "Slot 1"
    [] d = "s2" -> "Slot 2"

MachineIds == {"mA", "mB"}
Keys == MachineIds \cup {"Slot 1", "Slot 2", "Slot 3"}

\* f'Slot {slot_num}'
SlotLabel(n) ==
  CASE n = 1 -> "Slot 1"
    [] n = 2 -> "Slot 2"
    [] n = 3 -> "Slot 3"
    [] OTHER -> "Slot n"

\* int(slot_str.replace('Slot ', '')), 99 when that is no number
SlotNumber(slot_str) ==
  CASE slot_str = "Slot 1" -> 1
    [] slot_str = "Slot 2" -> 2
    [] slot_str = "Slot 3" -> 3
    [] OTHER -> 99

\* slot_key.startswith('Slot ')
IsSlotKey(k) == k \in {"Slot 1", "Slot 2", "Slot 3"}

\* ------------------------------------------------------------- conversions
\* int(text) for the numeric attribute texts the responses carry
IntTexts ==
  {<<ToString(n), n>> : n \in 0..9} \cup
  {<<"29", 29>>, <<"50", 50>>, <<"3005", 3005>>, <<"30000", 30000>>,
   <<"60000", 60000>>, <<"4000000", 4000000>>}

IsIntText(s) == \E p \in IntTexts : p[1] = s

ParseInt(s) == (CHOOSE p \in IntTexts : p[1] = s)[2]

Pad2(n) == IF n < 10 THEN "0" \o ToString(n) ELSE ToString(n)

\* str(datetime.timedelta(seconds=sec))
TimedeltaStr(sec) ==
  LET days == sec \div 86400
      rest == sec % 86400
      hms  == ToString(rest \div 3600) \o ":" \o Pad2((rest % 3600) \div 60)
                \o ":" \o Pad2(rest % 60)
  IN  IF days = 0 THEN hms
      ELSE IF days = 1 THEN "1 day, " \o hms
      ELSE ToString(days) \o " days, " \o hms

\* Whole percents N for which the double product (N/100.0)*100.0 falls just
\* below N (IEEE-754 round-to-nearest), for N up to 200.
FloatRoundsBelow == {29, 57, 58, 113, 114, 115, 116}

\* int((float(current_offset) / float(content_duration)) * 100.0)
\* The quotient is correctly rounded, so the result depends on the ratio only:
\* it is the floor, except where the ratio is a whole percent whose double
\* product rounds below it.
FloatPercent(current_offset, content_duration) ==
  LET n == (100 * current_offset) \div content_duration
  IN  IF (100 * current_offset) % content_duration = 0 /\ n \in FloatRoundsBelow
      THEN n - 1
      ELSE n

percent_complete(current_offset, content_duration) ==
  IF current_offset = 0 \/ content_duration = 0
  THEN 0
  ELSE FloatPercent(current_offset, content_duration)

\* ','.join(genre_list)
RECURSIVE JoinComma(_)
JoinComma(genre_list) ==
  IF genre_list = <<>> THEN ""
  ELSE IF Len(genre_list) = 1 THEN genre_list[1]
  ELSE genre_list[1] \o "," \o JoinComma(Tail(genre_list))

\* key.replace('/children', '')
StripChildren(key) ==
  CASE key = "/library/metadata/1/children" -> "/library/metadata/1"
    [] key = "/library/metadata/2/children" -> "/library/metadata/2"
    [] OTHER -> key

\* ------------------------------------------------------- response bodies
\* An XML body is its root element: whether it is well formed, the root's
\* attributes, and the child elements in document order.  A child element is
\* [tag, attrs, children (sub-elements by tag), Genre (tags of its Genre
\* sub-elements)].
VideoEpisode ==
  [tag |-> "Video",
   attrs |-> [type |-> "episode", title |-> "Pilot", summary |-> "First one",
              key |-> "/library/metadata/11", thumb |-> "/thumb/11",
              grandparentTitle |-> "Show X",
              grandparentKey |-> "/library/metadata/1",
              viewOffset |-> "30000", duration |-> "60000"],
   children |-> [User |-> [title |-> "bob"],
                 Player |-> [machineIdentifier |-> "mA", state |-> "playing",
                             title |-> "TV"],
                 Media |-> [videoResolution |-> "1080"]],
   Genre |-> <<>>]

TrackSong ==
  [tag |-> "Track",
   attrs |-> [type |-> "track", title |-> "Song",
              key |-> "/library/metadata/22",
              parentTitle |-> "Album", parentKey |-> "/library/metadata/2",
              viewOffset |-> "29", duration |-> "50"],
   children |-> [Player |-> [machineIdentifier |-> "mB"]],
   Genre |-> <<"Rock">>]

VideoMovie ==
  [tag |-> "Video",
   attrs |-> [type |-> "movie", title |-> "Film", year |-> "1999",
              art |-> "/art/33", duration |-> "4000000"],
   children |-> EmptyDict,
   Genre |-> <<"Drama", "Action">>]

SessionNodes == {VideoEpisode, TrackSong, VideoMovie}

ServerA ==
  [tag |-> "Server",
   attrs |-> [machineIdentifier |-> "mA", address |-> "10.0.0.1", port |-> "3005"],
   children |-> EmptyDict, Genre |-> <<>>]

ServerB ==
  [tag |-> "Server",
   attrs |-> [machineIdentifier |-> "mB", address |-> "10.0.0.2", port |-> "3005"],
   children |-> EmptyDict, Genre |-> <<>>]

DirectoryShow ==
  [tag |-> "Directory",
   attrs |-> [key |-> "/library/metadata/1/children", title |-> "Show X"],
   children |-> EmptyDict, Genre |-> <<"Comedy">>]

DirectoryAlbum ==
  [tag |-> "Directory",
   attrs |-> [key |-> "/library/metadata/2/children", title |-> "Album"],
   children |-> EmptyDict, Genre |-> <<"Rock", "Pop">>]

Xml(attrs, nodes) == [wellformed |-> TRUE, attrs |-> attrs, nodes |-> nodes]

Malformed == [wellformed |-> FALSE, attrs |-> EmptyDict, nodes |-> <<>>]

\* the lists of at most n different elements of S, in every order
DistinctSeqs(S, n) ==
  {q \in UNION {[1..m -> S] : m \in 0..n} : \A i, j \in DOMAIN q : i # j => q[i] # q[j]}

\* GET /status/sessions: the server reports size = number of sessions
SessionsXml(nodes) == Xml([size |-> ToString(Len(nodes))], nodes)

SessionBodies == {SessionsXml(nodes) : nodes \in DistinctSeqs(SessionNodes, MaxSessions)}

\* the viewOffset and duration texts of the sessions below
PercentTexts == {"0", "1", "3", "7", "29", "50", "60000", "4000000"}

\* a film playing on the Identified client's player
PlayingMovie(view_offset, duration) ==
  [tag |-> "Video",
   attrs |-> [type |-> "movie", title |-> "Film",
              viewOffset |-> view_offset, duration |-> duration],
   children |-> [Player |-> [machineIdentifier |-> "mA", state |-> "playing"]],
   Genre |-> <<>>]

PercentBodies ==
  {SessionsXml(<<PlayingMovie(o, d)>>) : o \in PercentTexts, d \in PercentTexts}

\* something of the given type playing on the Identified client's player;
\* the type "" stands for a record without a type attribute
TitledNode(type, grandparent_title) ==
  [tag |-> IF type = "track" THEN "Track" ELSE "Video",
   attrs |-> IF type = ""
             THEN [title |-> "Pilot", grandparentTitle |-> grandparent_title]
             ELSE [type |-> type, title |-> "Pilot",
                   grandparentTitle |-> grandparent_title],
   children |-> [Player |-> [machineIdentifier |-> "mA", state |-> "playing"]],
   Genre |-> <<>>]

TitleBodies ==
  {SessionsXml(<<TitledNode(type, grandparent_title)>>) :
      type \in {"episode", "movie", "track", ""}, grandparent_title \in {"", "Show X"}}

\* a live programme on the Identified client's player, its duration not a
\* number
VideoLive ==
  [tag |-> "Video",
   attrs |-> [type |-> "clip", title |-> "Live", key |-> "/livetv/sessions/1",
              duration |-> "n/a"],
   children |-> [Player |-> [machineIdentifier |-> "mA", state |-> "playing"]],
   Genre |-> <<>>]

BrokenBodies == {SessionsXml(<<VideoLive>>), SessionsXml(<<VideoLive, TrackSong>>)}

\* every body the sessions request is answered with
AnySessionBodies == SessionBodies \cup PercentBodies \cup TitleBodies \cup BrokenBodies

\* GET /clients
ClientBodies ==
  {Xml(EmptyDict, nodes) : nodes \in {<<>>, <<ServerA>>, <<ServerB>>, <<ServerA, ServerB>>}}

\* GET / (server root)
RootBodies ==
  {Xml([machineIdentifier |-> "srv1", friendlyName |-> "Plex", version |-> "1.40",
        transcoderActiveVideoSessions |-> "0"], <<>>)}

\* GET <media key>
MetadataBodies ==
  {Xml(EmptyDict, nodes) : nodes \in {<<>>, <<DirectoryShow>>, <<DirectoryAlbum>>}}

\* --------------------------------------------------- plex_media_container
MEDIACONTAINERTYPE_UNKNOWN == 0
MEDIACONTAINERTYPE_SERVERNODE == 1
MEDIACONTAINERTYPE_CLIENTLIST == 2
MEDIACONTAINERTYPE_SESSIONLIST == 3

\* node.findall(tag), in document order
FindAll(nodes, tag) == SelectSeq(nodes, LAMBDA n : n.tag = tag)

\* the genre tags of a node, empty tags skipped
GenreTags(node) == SelectSeq(node.Genre, LAMBDA t : t # "")

PlexMediaContainerDirectory(node) ==
  [dictionary_attributes |-> node.attrs, genre_list |-> GenreTags(node)]

PlexMediaClient(node) == [client_attributes |-> node.attrs]

get_client_id(c) == Get(c.client_attributes, "machineIdentifier", "")
get_client_address(c) == Get(c.client_attributes, "address", "")
get_client_port(c) ==
  LET t == Get(c.client_attributes, "port", "0")
  IN  IF IsIntText(t) THEN ParseInt(t) ELSE 0

PlexMediaContainerVideoSession(node) ==
  [video_attributes |-> node.attrs,
   user_info   |-> Get(node.children, "User", EmptyDict),
   player_info |-> Get(node.children, "Player", EmptyDict),
   media_info  |-> Get(node.children, "Media", EmptyDict),
   genre_list  |-> IF node.tag # "Track" THEN GenreTags(node) ELSE <<>>]

\* the list-building loops of PlexMediaContainer.__init__
Directories(nodes) == [i \in DOMAIN nodes |-> PlexMediaContainerDirectory(nodes[i])]
Clients(nodes) == [i \in DOMAIN nodes |-> PlexMediaClient(nodes[i])]
VideoSessions(nodes) == [i \in DOMAIN nodes |-> PlexMediaContainerVideoSession(nodes[i])]

ContainerType(plex_container_path) ==
  CASE plex_container_path = "/" -> MEDIACONTAINERTYPE_SERVERNODE
    [] plex_container_path = "/clients" -> MEDIACONTAINERTYPE_CLIENTLIST
    [] plex_container_path = "/status/sessions" -> MEDIACONTAINERTYPE_SESSIONLIST
    [] OTHER -> MEDIACONTAINERTYPE_UNKNOWN

\* PlexMediaContainer collecting the sessions in one pass: what the parser
\* would expose if it kept the order of the response
PlexMediaContainer_document_order(xml, plex_container_path) ==
  LET ctype == ContainerType(plex_container_path)
  IN  [raised |-> ~xml.wellformed,
       container_type |-> ctype,
       container_attributes |-> xml.attrs,
       directories |-> Directories(FindAll(xml.nodes, "Directory")),
       clients |-> IF ctype = MEDIACONTAINERTYPE_CLIENTLIST
                   THEN Clients(FindAll(xml.nodes, "Server"))
                   ELSE <<>>,
       video_sessions |->
          IF ctype = MEDIACONTAINERTYPE_SESSIONLIST
          THEN VideoSessions(SelectSeq(xml.nodes, LAMBDA n : n.tag \in {"Video", "Track"}))
          ELSE <<>>]

\* PlexMediaContainer(xml, path); raised = TRUE is the ValueError of a
\* malformed body
PlexMediaContainer(xml, plex_container_path) ==
  LET ctype == ContainerType(plex_container_path)
  IN  [raised |-> ~xml.wellformed,
       container_type |-> ctype,
       container_attributes |-> xml.attrs,
       directories |-> Directories(FindAll(xml.nodes, "Directory")),
       clients |-> IF ctype = MEDIACONTAINERTYPE_CLIENTLIST
                   THEN Clients(FindAll(xml.nodes, "Server"))
                   ELSE <<>>,
       video_sessions |->
          IF ctype = MEDIACONTAINERTYPE_SESSIONLIST
          THEN VideoSessions(FindAll(xml.nodes, "Video"))
                 \o VideoSessions(FindAll(xml.nodes, "Track"))
          ELSE <<>>]

\* ------------------------------------------------------ host device store
\* The state bag of a client device as the host creates it: texts empty,
\* numbers zero.  Slot devices also define clientId.
FreshStates(d) ==
  LET common ==
        [clientConnectionStatus |-> "", clientAddress |-> "", clientPort |-> 0,
         currentUser |-> "", currentlyPlayingKey |-> "",
         currentlyPlayingMediaType |-> "", currentlyPlayingParentKey |-> "",
         currentlyPlayingTitle |-> "", currentlyPlayingSummary |-> "",
         currentlyPlayingArtUrl |-> "", currentlyPlayingThumbnailUrl |-> "",
         currentlyPlayingParentTitle |-> "",
         currentlyPlayingParentThumbnailUrl |-> "",
         currentlyPlayingGrandparentKey |-> "",
         currentlyPlayingGrandparentTitle |-> "",
         currentlyPlayingGrandparentArtUrl |-> "",
         currentlyPlayingGrandparentThumbnailUrl |-> "",
         currentlPlayingTitleYear |-> "", currentlyPlayingStarRating |-> "",
         currentlyPlayingContentRating |-> "",
         currentlyPlayingContentResolution |-> "",
         currentlyPlayingContentLengthMS |-> 0,
         currentlyPlayingContentLengthDisplay |-> "",
         currentlyPlayingContentLengthOffset |-> 0,
         currentlyPlayingContentLengthOffsetDisplay |-> "",
         currentlyPlayingContentPercentComplete |-> 0,
         currentlyPlayingGenre |-> "", playerDeviceTitle |-> ""]
  IN  IF deviceTypeId(d) = "plexMediaClientSlot"
      THEN common @@ [clientId |-> ""]
      ELSE common

\* ---------------------------------------------------------- reconciliation
\* the "standard disconnected state values" of _mark_disconnected_clients
disconnected_states ==
  [clientConnectionStatus |-> "disconnected", clientAddress |-> "", clientPort |-> 0,
   currentUser |-> "", currentlyPlayingKey |-> "",
   currentlyPlayingMediaType |-> "unknown", currentlyPlayingParentKey |-> "",
   currentlyPlayingTitle |-> "", currentlyPlayingSummary |-> "",
   currentlyPlayingArtUrl |-> "", currentlyPlayingThumbnailUrl |-> "",
   currentlyPlayingParentTitle |-> "", currentlyPlayingParentThumbnailUrl |-> "",
   currentlyPlayingGrandparentKey |-> "", currentlyPlayingGrandparentTitle |-> "",
   currentlyPlayingGrandparentArtUrl |-> "",
   currentlyPlayingGrandparentThumbnailUrl |-> "",
   currentlPlayingTitleYear |-> "", currentlyPlayingStarRating |-> "",
   currentlyPlayingContentRating |-> "", currentlyPlayingContentResolution |-> "",
   currentlyPlayingContentLengthMS |-> 0, currentlyPlayingContentLengthDisplay |-> "",
   currentlyPlayingContentLengthOffset |-> 0,
   currentlyPlayingContentLengthOffsetDisplay |-> "",
   currentlyPlayingContentPercentComplete |-> 0,
   currentlyPlayingGenre |-> "", playerDeviceTitle |-> ""]

slot_disconnected == disconnected_states @@ [clientId |-> ""]

\* _child_devices: key -> device, NoDev where the key is not registered
InRoster(roster, k) == k \in DOMAIN roster /\ roster[k] # NoDev

Registered(roster) == {roster[k] : k \in {x \in DOMAIN roster : roster[x] # NoDev}}

\* the title with the grandparent title first whatever the type: what
\* _update_client_with_session would push without its test of the type
media_title_any_type(va) ==
  LET grandparent_title == Get(va, "grandparentTitle", "")
  IN  IF grandparent_title # ""
      THEN grandparent_title \o " : " \o Get(va, "title", "")
      ELSE Get(va, "title", "")

\* the title pushed for a session (show name first for episodes)
media_title(va) ==
  LET grandparent_title == Get(va, "grandparentTitle", "")
  IN  IF Get(va, "type", "unknown") = "episode" /\ grandparent_title # ""
      THEN grandparent_title \o " : " \o Get(va, "title", "")
      ELSE Get(va, "title", "")

\* the states_to_update batch of _update_client_with_session
states_to_update(d, session, player_machine_id) ==
  LET va == session.video_attributes
      content_duration == ParseInt(Get(va, "duration", "0"))
      current_offset == ParseInt(Get(va, "viewOffset", "0"))
      batch ==
        [clientConnectionStatus |-> Get(session.player_info, "state", "connected"),
         currentUser |-> Get(session.user_info, "title", ""),
         currentlyPlayingMediaType |-> Get(va, "type", "unknown"),
         currentlyPlayingTitle |-> media_title(va),
         currentlyPlayingSummary |-> Get(va, "summary", ""),
         currentlyPlayingKey |-> Get(va, "key", ""),
         currentlyPlayingArtUrl |-> Get(va, "art", ""),
         currentlyPlayingThumbnailUrl |-> Get(va, "thumb", ""),
         currentlyPlayingParentKey |-> Get(va, "parentKey", ""),
         currentlyPlayingParentTitle |-> Get(va, "parentTitle", ""),
         currentlyPlayingParentThumbnailUrl |-> Get(va, "parentThumb", ""),
         currentlyPlayingGrandparentKey |-> Get(va, "grandparentKey", ""),
         currentlyPlayingGrandparentTitle |-> Get(va, "grandparentTitle", ""),
         currentlyPlayingGrandparentArtUrl |-> Get(va, "grandparentArt", ""),
         currentlyPlayingGrandparentThumbnailUrl |-> Get(va, "grandparentThumb", ""),
         currentlPlayingTitleYear |-> Get(va, "year", ""),
         currentlyPlayingStarRating |-> Get(va, "rating", ""),
         currentlyPlayingContentRating |-> Get(va, "contentRating", ""),
         currentlyPlayingContentResolution |-> Get(session.media_info, "videoResolution", ""),
         currentlyPlayingContentLengthMS |-> content_duration,
         currentlyPlayingContentLengthDisplay |-> TimedeltaStr(content_duration \div 1000),
         currentlyPlayingContentLengthOffset |-> current_offset,
         currentlyPlayingContentLengthOffsetDisplay |-> TimedeltaStr(current_offset \div 1000),
         currentlyPlayingContentPercentComplete |->
            percent_complete(current_offset, content_duration),
         currentlyPlayingGenre |-> JoinComma(session.genre_list),
         playerDeviceTitle |-> Get(session.player_info, "title", "")]
  IN  IF deviceTypeId(d) = "plexMediaClientSlot"
      THEN batch @@ [clientId |-> player_machine_id]
      ELSE batch

\* queue commands
StatusUpdateCmd == [command_type |-> "status_update", payload |-> <<>>]
GetMetadataCmd(device_id, media_key) ==
  [command_type |-> "get_metadata", payload |-> <<device_id, media_key>>]
DownloadImageCmd(url_path) ==
  [command_type |-> "download_image", payload |-> <<url_path>>]
Sentinel == [command_type |-> "none", payload |-> <<>>]

\* the metadata key _update_client_with_session asks for, "" for none
metadata_key(va) ==
  LET media_type == Get(va, "type", "unknown")
  IN  IF media_type = "track" /\ Get(va, "parentKey", "") # ""
      THEN Get(va, "parentKey", "")
      ELSE IF media_type = "episode" /\ Get(va, "grandparentKey", "") # ""
      THEN Get(va, "grandparentKey", "")
      ELSE ""

\* _update_client_with_session on the running result acc =
\* [st (device store), q (queue), new_client_list, connected_clients, raised].
\* int() of a non-numeric duration or viewOffset raises before anything is
\* queued or written.
update_client_with_session(acc, d, session, player_machine_id) ==
  LET va == session.video_attributes
  IN  IF ~IsIntText(Get(va, "duration", "0")) \/ ~IsIntText(Get(va, "viewOffset", "0"))
      THEN [acc EXCEPT !.raised = TRUE]
      ELSE [acc EXCEPT
              !.q = IF metadata_key(va) # ""
                    THEN Append(@, GetMetadataCmd(d, metadata_key(va)))
                    ELSE @,
              !.st[d] = UpdateStates(@, states_to_update(d, session, player_machine_id))]

\* clients_to_process without the slot lookup: what the reconciliation would
\* do if sessions were matched by machine ID only
clients_to_process_by_machine_id(roster, player_machine_id, slot_num) ==
  IF InRoster(roster, player_machine_id) THEN <<roster[player_machine_id]>> ELSE <<>>

\* clients_to_process with every registered slot: what the reconciliation
\* would do if a session were pushed to all the slots
clients_to_process_every_slot(roster, player_machine_id, slot_num) ==
  (IF InRoster(roster, player_machine_id) THEN <<roster[player_machine_id]>> ELSE <<>>)
  \o (IF InRoster(roster, "Slot 1") THEN <<roster["Slot 1"]>> ELSE <<>>)
  \o (IF InRoster(roster, "Slot 2") THEN <<roster["Slot 2"]>> ELSE <<>>)
  \o (IF InRoster(roster, "Slot 3") THEN <<roster["Slot 3"]>> ELSE <<>>)

\* clients_to_process of one session: the device registered under the machine
\* ID, then the device registered under the slot label
clients_to_process(roster, player_machine_id, slot_num) ==
  (IF InRoster(roster, player_machine_id) THEN <<roster[player_machine_id]>> ELSE <<>>)
  \o (IF InRoster(roster, SlotLabel(slot_num)) THEN <<roster[SlotLabel(slot_num)]>> ELSE <<>>)

RECURSIVE ProcessClients(_, _, _, _)
ProcessClients(acc, clients, session, player_machine_id) ==
  IF clients = <<>> \/ acc.raised THEN acc
  ELSE ProcessClients(update_client_with_session(acc, Head(clients), session, player_machine_id),
                      Tail(clients), session, player_machine_id)

\* the session loop of _handle_sessions_response, from session slot_num on
RECURSIVE ProcessSessions(_, _, _, _)
ProcessSessions(acc, roster, video_sessions, slot_num) ==
  IF slot_num > Len(video_sessions) \/ acc.raised THEN acc
  ELSE
    LET session == video_sessions[slot_num]
        player_machine_id == Get(session.player_info, "machineIdentifier", "")
        player_name == Get(session.player_info, "title", player_machine_id)
        done == ProcessClients(acc, clients_to_process(roster, player_machine_id, slot_num),
                               session, player_machine_id)
        tracked ==
          IF player_machine_id # "" /\ ~done.raised
          THEN [done EXCEPT
                  !.new_client_list = Append(@, <<player_machine_id, player_name>>),
                  !.connected_clients = @ \cup {player_machine_id}]
          ELSE done
    IN  ProcessSessions(tracked, roster, video_sessions, slot_num + 1)

\* _mark_disconnected_clients pushing the same reset to every device: what
\* the scan would do if a slot's reset left its clientId alone
mark_disconnected_clients_same_reset(st, roster, connected_clients, max_slot) ==
  [d \in DOMAIN st |->
     IF d \notin Registered(roster) THEN st[d]
     ELSE IF deviceTypeId(d) = "plexMediaClient"
     THEN IF st[d].clientConnectionStatus # "disconnected"
             /\ plexClientId(d) \notin connected_clients
          THEN UpdateStates(st[d], disconnected_states)
          ELSE st[d]
     ELSE LET slot_str == IF plexClientId(d) = "" THEN "Slot 99" ELSE plexClientId(d)
          IN  IF SlotNumber(slot_str) > max_slot
              THEN UpdateStates(st[d], disconnected_states)
              ELSE st[d]]

\* _mark_disconnected_clients: a scan of the whole roster
mark_disconnected_clients(st, roster, connected_clients, max_slot) ==
  [d \in DOMAIN st |->
     IF d \notin Registered(roster) THEN st[d]
     ELSE IF deviceTypeId(d) = "plexMediaClient"
     THEN IF st[d].clientConnectionStatus # "disconnected"
             /\ plexClientId(d) \notin connected_clients
          THEN UpdateStates(st[d], disconnected_states)
          ELSE st[d]
     ELSE LET slot_str == IF plexClientId(d) = "" THEN "Slot 99" ELSE plexClientId(d)
          IN  IF SlotNumber(slot_str) > max_slot
              THEN UpdateStates(st[d], slot_disconnected)
              ELSE st[d]]

\* ------------------------------------------------------ response handlers
\* The handlers work on w = [st (client device store), q (queue),
\* server (server device states), current_client_list, reconciled (whether
\* _mark_disconnected_clients ran, for the history)].

\* _handle_server_info_response
handle_server_info_response(w, xml_text) ==
  LET container == PlexMediaContainer(xml_text, "/")
      attrs == container.container_attributes
  IN  IF container.raised THEN w
      ELSE IF container.container_type # MEDIACONTAINERTYPE_SERVERNODE THEN w
      ELSE IF ~IsIntText(Get(attrs, "transcoderActiveVideoSessions", "0")) THEN w
      ELSE [w EXCEPT !.server = UpdateStates(@,
              [connectionState |-> "Connected",
               serverIdentifier |-> Get(attrs, "machineIdentifier", ""),
               serverName |-> Get(attrs, "friendlyName", ""),
               serverVersion |-> Get(attrs, "version", ""),
               transcoderActiveVideoSessions |->
                  ParseInt(Get(attrs, "transcoderActiveVideoSessions", "0"))])]

\* one client record pushed whatever the connection status: what the client
\* list would do if a 'disconnected' Identified device took the address too
update_client_address_any_status(st, roster, plex_client) ==
  LET client_id == get_client_id(plex_client)
      address == [clientAddress |-> get_client_address(plex_client),
                  clientPort |-> get_client_port(plex_client)]
      st1 == IF client_id # "" /\ InRoster(roster, client_id)
             THEN [st EXCEPT ![roster[client_id]] = UpdateStates(@, address)]
             ELSE st
  IN  IF client_id = "" THEN st
      ELSE [d \in DOMAIN st1 |->
              IF \E slot_key \in DOMAIN roster :
                    /\ IsSlotKey(slot_key)
                    /\ roster[slot_key] = d
                    /\ Get(st1[d], "clientId", "") = client_id
              THEN UpdateStates(st1[d], address)
              ELSE st1[d]]

\* one client record of _handle_client_list_response
update_client_address(st, roster, plex_client) ==
  LET client_id == get_client_id(plex_client)
      address == [clientAddress |-> get_client_address(plex_client),
                  clientPort |-> get_client_port(plex_client)]
      st1 == IF client_id # "" /\ InRoster(roster, client_id)
                /\ st[roster[client_id]].clientConnectionStatus # "disconnected"
             THEN [st EXCEPT ![roster[client_id]] = UpdateStates(@, address)]
             ELSE st
  IN  IF client_id = "" THEN st
      ELSE [d \in DOMAIN st1 |->
              IF \E slot_key \in DOMAIN roster :
                    /\ IsSlotKey(slot_key)
                    /\ roster[slot_key] = d
                    /\ Get(st1[d], "clientId", "") = client_id
              THEN UpdateStates(st1[d], address)
              ELSE st1[d]]

RECURSIVE UpdateClientAddresses(_, _, _)
UpdateClientAddresses(st, roster, clients) ==
  IF clients = <<>> THEN st
  ELSE UpdateClientAddresses(update_client_address(st, roster, Head(clients)),
                             roster, Tail(clients))

\* _handle_client_list_response
handle_client_list_response(w, roster, xml_text) ==
  LET container == PlexMediaContainer(xml_text, "/clients")
  IN  IF container.raised THEN w
      ELSE IF container.container_type # MEDIACONTAINERTYPE_CLIENTLIST THEN w
      ELSE [w EXCEPT !.st = UpdateClientAddresses(@, roster, container.clients)]

\* _handle_sessions_response counting every session: what the handler would
\* report if connectedClientCount were the length of the session list
handle_sessions_response_counting_all(w, roster, xml_text) ==
  LET container == PlexMediaContainer(xml_text, "/status/sessions")
      size == Get(container.container_attributes, "size", "0")
      acc == ProcessSessions([st |-> w.st, q |-> w.q, new_client_list |-> <<>>,
                              connected_clients |-> {}, raised |-> FALSE],
                             roster, container.video_sessions, 1)
      counted == [w EXCEPT !.server.activeSessionsCount = ParseInt(size)]
  IN  IF container.raised THEN w
      ELSE IF container.container_type # MEDIACONTAINERTYPE_SESSIONLIST THEN w
      ELSE IF ~IsIntText(size) THEN w
      ELSE IF acc.raised THEN [counted EXCEPT !.st = acc.st, !.q = acc.q]
      ELSE [st |-> mark_disconnected_clients(acc.st, roster, acc.connected_clients,
                                             Len(container.video_sessions)),
            q |-> acc.q,
            server |-> [counted.server EXCEPT
                          !.connectedClientCount = Len(container.video_sessions)],
            current_client_list |-> acc.new_client_list,
            reconciled |-> TRUE]

\* _handle_sessions_response
handle_sessions_response(w, roster, xml_text) ==
  LET container == PlexMediaContainer(xml_text, "/status/sessions")
      size == Get(container.container_attributes, "size", "0")
      acc == ProcessSessions([st |-> w.st, q |-> w.q, new_client_list |-> <<>>,
                              connected_clients |-> {}, raised |-> FALSE],
                             roster, container.video_sessions, 1)
      counted == [w EXCEPT !.server.activeSessionsCount = ParseInt(size)]
  IN  IF container.raised THEN w
      ELSE IF container.container_type # MEDIACONTAINERTYPE_SESSIONLIST THEN w
      ELSE IF ~IsIntText(size) THEN w
      ELSE IF acc.raised THEN [counted EXCEPT !.st = acc.st, !.q = acc.q]
      ELSE [st |-> mark_disconnected_clients(acc.st, roster, acc.connected_clients,
                                             Len(container.video_sessions)),
            q |-> acc.q,
            server |-> [counted.server EXCEPT
                          !.connectedClientCount = Len(acc.new_client_list)],
            current_client_list |-> acc.new_client_list,
            reconciled |-> TRUE]

\* _handle_sessions_response while register_client or unregister_client
\* changes the size of _child_devices on another thread: the loop of
\* _mark_disconnected_clients over _child_devices.items() raises RuntimeError
\* after the devices of 'visited', and the except of the handler ends it
\* before _current_client_list and connectedClientCount are written
handle_sessions_response_roster_changed(w, roster, xml_text, visited) ==
  LET container == PlexMediaContainer(xml_text, "/status/sessions")
      size == Get(container.container_attributes, "size", "0")
      acc == ProcessSessions([st |-> w.st, q |-> w.q, new_client_list |-> <<>>,
                              connected_clients |-> {}, raised |-> FALSE],
                             roster, container.video_sessions, 1)
      counted == [w EXCEPT !.server.activeSessionsCount = ParseInt(size)]
      scanned == mark_disconnected_clients(acc.st, roster, acc.connected_clients,
                                           Len(container.video_sessions))
  IN  IF container.raised THEN w
      ELSE IF container.container_type # MEDIACONTAINERTYPE_SESSIONLIST THEN w
      ELSE IF ~IsIntText(size) THEN w
      ELSE IF acc.raised THEN [counted EXCEPT !.st = acc.st, !.q = acc.q]
      ELSE [counted EXCEPT
              !.st = [d \in DOMAIN acc.st |->
                        IF d \in visited THEN scanned[d] ELSE acc.st[d]],
              !.q = acc.q]

\* one directory compared by its key as returned: what the metadata handler
\* would do if it did not remove '/children'
update_genre_unstripped(st, roster, media_dir) ==
  LET dir_media_key == Get(media_dir.dictionary_attributes, "key", "")
  IN  [d \in DOMAIN st |->
         IF /\ d \in Registered(roster)
            /\ \/ /\ st[d].currentlyPlayingMediaType = "track"
                  /\ st[d].currentlyPlayingParentKey = dir_media_key
               \/ /\ st[d].currentlyPlayingMediaType = "episode"
                  /\ st[d].currentlyPlayingGrandparentKey = dir_media_key
         THEN [st[d] EXCEPT !.currentlyPlayingGenre = JoinComma(media_dir.genre_list)]
         ELSE st[d]]

\* one directory of _handle_metadata_response
update_genre(st, roster, media_dir) ==
  LET dir_media_key == StripChildren(Get(media_dir.dictionary_attributes, "key", ""))
  IN  [d \in DOMAIN st |->
         IF /\ d \in Registered(roster)
            /\ \/ /\ st[d].currentlyPlayingMediaType = "track"
                  /\ st[d].currentlyPlayingParentKey = dir_media_key
               \/ /\ st[d].currentlyPlayingMediaType = "episode"
                  /\ st[d].currentlyPlayingGrandparentKey = dir_media_key
         THEN [st[d] EXCEPT !.currentlyPlayingGenre = JoinComma(media_dir.genre_list)]
         ELSE st[d]]

RECURSIVE UpdateGenres(_, _, _)
UpdateGenres(st, roster, directories) ==
  IF directories = <<>> THEN st
  ELSE UpdateGenres(update_genre(st, roster, Head(directories)), roster, Tail(directories))

\* _handle_metadata_response
handle_metadata_response(w, roster, xml_text) ==
  LET container == PlexMediaContainer(xml_text, "/library")
  IN  IF container.raised THEN w
      ELSE [w EXCEPT !.st = UpdateGenres(@, roster, container.directories)]

\* ------------------------------------------------------------------- HTTP
Tokens == {"tok1", "tok2"}

\* what a requests call can end in
Response(status_code, body) ==
  [kind |-> "response", status_code |-> status_code, body |-> body]
ConnectionError == [kind |-> "connection_error", status_code |-> 0, body |-> Malformed]
Timeout == [kind |-> "timeout", status_code |-> 0, body |-> Malformed]
NoRequest == [kind |-> "none", status_code |-> 0, body |-> Malformed]

Outcomes(bodies) ==
  {Response(200, b) : b \in bodies \cup {Malformed}}
    \cup {Response(401, Malformed), Response(500, Malformed), ConnectionError, Timeout}

\* bool(response): requests.Response is truthy when its status is below 400
Truthy(r) == r.kind = "response" /\ r.status_code < 400

\* POST https://plex.tv/users/sign_in.xml: 201 with or without a token node,
\* another status, or an exception
SignIn(status_code, token) == [kind |-> "response", status_code |-> status_code, token |-> token]
SignInError == [kind |-> "exception", status_code |-> 0, token |-> ""]
NoSignIn == [kind |-> "none", status_code |-> 0, token |-> ""]

SignInOutcomesOf(tokens) ==
  {SignIn(201, t) : t \in tokens \cup {""}} \cup {SignIn(401, ""), SignInError}

SignInOutcomes == SignInOutcomesOf(Tokens)

\* _retrieve_security_token without its first guard: what the retrieval
\* would do if it signed in whether or not a token is cached
SignInNeeded_always(token, login) == login

\* does _retrieve_security_token reach the POST
SignInNeeded(token, login) == token = "" /\ login

\* _retrieve_security_token falling back to a built-in token: what the
\* retrieval would hold if a 201 without a token field still set one
retrieve_security_token_defaulting(token, login, signin) ==
  IF token # "" THEN token
  ELSE IF ~login THEN token
  ELSE IF signin.kind # "response" THEN ""
  ELSE IF signin.status_code = 201
       THEN (IF signin.token # "" THEN signin.token ELSE "tok1")
       ELSE ""

\* _retrieve_security_token treating every answer as a success: what the
\* retrieval would hold if a status other than 201 did not clear the token
retrieve_security_token_any_status(token, login, signin) ==
  IF token # "" THEN token
  ELSE IF ~login THEN token
  ELSE IF signin.kind # "response" THEN ""
  ELSE IF signin.status_code = 201
       THEN (IF signin.token # "" THEN signin.token ELSE token)
       ELSE "tok2"

\* the token after _retrieve_security_token
retrieve_security_token(token, login, signin) ==
  IF token # "" THEN token
  ELSE IF ~login THEN token
  ELSE IF signin.kind # "response" THEN ""
  ELSE IF signin.status_code = 201
       THEN (IF signin.token # "" THEN signin.token ELSE token)
       ELSE ""

\* the X-Plex-Token header _get_auth_headers builds ("" = no such header),
\* from the token after _retrieve_security_token
auth_header(token, login) == IF login THEN token ELSE ""

\* _get keeping the token whatever the status: what the worker would hold
\* if a 401 did not invalidate the cached token
token_after_get_kept(token, r) == token

\* the token after _get: a 401 with a token cached invalidates it
token_after_get(token, r) ==
  IF r.kind = "response" /\ r.status_code = 401 /\ token # "" THEN "" ELSE token

\* _handle_connection_error and the except branches of _get
bad_calls_after_get(n, r) == IF r.kind = "connection_error" THEN n + 1 ELSE n

connection_state_after_get(server, n, r) ==
  IF r.kind = "connection_error" /\ n + 1 >= MAX_BAD_CALLS
  THEN [server EXCEPT !.connectionState = "Disconnected"]
  ELSE server

\* ------------------------------------------------------------------ state
VARIABLES
  login_required,       \* PlexServer._login_required (from pluginProps)
  security_token,       \* PlexServer._security_token
  bad_calls,            \* PlexServer.bad_calls
  queue,                \* PlexServer.queue
  stop_thread,          \* PlexServer._stop_thread
  thread,               \* PlexServer.thread: "none", "alive", "exited"
  pc,                   \* where the worker thread is
  command,              \* the command the worker is executing
  headers,              \* the X-Plex-Token header built for that command
  child_devices,        \* PlexServer._child_devices
  current_client_list,  \* PlexServer._current_client_list
  managed,              \* the server object is in Plugin.managed_devices
  client_devices,       \* Plugin.client_devices (the started client devices)
  serverStates,         \* host device store: states of the server device
  devStates,            \* host device store: states of the client devices
  cycle,                \* history: the requests of the current status poll
  root_failures,        \* history: polls whose root request failed since the
                        \*   last poll whose root request succeeded
  conn_failures,        \* history: consecutive polls whose root request
                        \*   ended in a connection failure
  reauth,               \* history: "due" after a 401 on the sessions request
                        \*   cleared the token, "signed" after the sign-in
                        \*   call that follows, "retried" once a request went
                        \*   out after it, "stale" once a request went out
                        \*   with no sign-in call in between
  last,                 \* history: the step just taken and its request
  signin_call,          \* history: the sign-in call of the step just taken,
                        \*   NoSignIn when it made none
  command_id,           \* PlexClient._command_id of each client device's object
  loaded,               \* caller threads inside get_next_command_id: the
                        \*   value of _command_id each has read
  issued,               \* history: the values get_next_command_id returned,
                        \*   for each client device's object, in order
  started_after_stop    \* history: the commands the worker has taken since
                        \*   stop() set the flag

vars == <<login_required, security_token, bad_calls, queue, stop_thread, thread,
          pc, command, headers, child_devices, current_client_list, managed,
          client_devices, serverStates, devStates, cycle, root_failures,
          conn_failures, reauth, last, signin_call, command_id, loaded, issued,
          started_after_stop>>

idVars == <<command_id, loaded, issued>>

\* the threads that run playback actions
Callers == {"t1", "t2"}

\* a caller thread outside get_next_command_id
NoLoad == [dev |-> NoDev, value |-> 0, stale |-> FALSE]

serverVars == <<login_required, security_token, bad_calls, queue, stop_thread,
                thread, pc, command, headers, current_client_list, serverStates>>

World == [st |-> devStates, q |-> queue, server |-> serverStates,
          current_client_list |-> current_client_list, reconciled |-> FALSE]

SetWorld(w) ==
  /\ devStates' = w.st
  /\ queue' = w.q
  /\ serverStates' = w.server
  /\ current_client_list' = w.current_client_list

NoCycle == [root |-> "none", clients |-> FALSE, sessions |-> FALSE, reconciled |-> FALSE]

\* history of a step: its request, with the token and the failure counter
\* when the request went out; the body is kept for the clients, sessions and
\* metadata requests, and whether it could be parsed for the others
Step(op, r, token) ==
  [op |-> op,
   request |-> IF op \in {"clients", "sessions", "metadata"} THEN r
               ELSE [r EXCEPT !.body = [Malformed EXCEPT !.wellformed = r.body.wellformed]],
   token_before |-> token, bad_before |-> bad_calls]

HostStep == [op |-> "host", request |-> NoRequest, token_before |-> "", bad_before |-> 0]
WorkerStep == [op |-> "worker", request |-> NoRequest, token_before |-> "", bad_before |-> 0]
\* a queue_* call of a host thread on a started server object
QueuedStep == [op |-> "queued", request |-> NoRequest, token_before |-> "", bad_before |-> 0]

\* how a request ended, for the history
Verdict(r) ==
  IF Truthy(r) /\ r.body.wellformed THEN "ok"
  ELSE IF r.kind = "connection_error" THEN "connection_error"
  ELSE IF r.kind = "timeout" THEN "timeout"
  ELSE IF r.kind = "response" /\ r.status_code = 200 THEN "unparsable"
  ELSE "status"

\* a request goes out: with a re-authentication due it goes out stale, after
\* the sign-in call it is the retry
Requested(due) ==
  CASE due = "due" -> "stale"
    [] due = "signed" -> "retried"
    [] OTHER -> due

\* _retrieve_security_token ran: a sign-in call settles a due re-authentication
SignedIn(due, token, login) ==
  IF SignInNeeded(token, login) /\ due = "due" THEN "signed" ELSE due

\* PlexServer.__init__ for a server device whose communication starts
Init ==
  /\ login_required \in BOOLEAN
  /\ security_token = ""
  /\ bad_calls = 0
  /\ queue = <<>>
  /\ stop_thread = FALSE
  /\ thread = "none"
  /\ pc = "none"
  /\ command = Sentinel
  /\ headers = ""
  /\ child_devices = [k \in Keys |-> NoDev]
  /\ current_client_list = <<>>
  /\ managed = TRUE
  /\ client_devices = {}
  /\ serverStates = [connectionState |-> "Starting", serverIdentifier |-> "",
                     serverName |-> "", serverVersion |-> "",
                     transcoderActiveVideoSessions |-> 0,
                     activeSessionsCount |-> 0, connectedClientCount |-> 0]
  /\ devStates = [d \in Devs |-> FreshStates(d)]
  /\ cycle = NoCycle
  /\ root_failures = 0
  /\ conn_failures = 0
  /\ reauth = "no"
  /\ last = HostStep
  /\ signin_call = NoSignIn
  /\ command_id = [d \in Devs |-> 0]
  /\ loaded = [t \in Callers |-> NoLoad]
  /\ issued = [d \in Devs |-> <<>>]
  /\ started_after_stop = 0

\* --------------------------------------------------------- worker thread
\* start() without its last line: what a server object would do if the
\* thread started with nothing queued
Start_queueing_nothing ==
  /\ thread = "none"
  /\ stop_thread' = FALSE
  /\ thread' = "alive"
  /\ pc' = "loop"
  /\ last' = HostStep
  /\ signin_call' = NoSignIn
  /\ UNCHANGED started_after_stop
  /\ UNCHANGED idVars
  /\ UNCHANGED <<login_required, security_token, bad_calls, queue, command, headers,
                 child_devices, current_client_list, managed, client_devices,
                 serverStates, devStates, cycle, root_failures, conn_failures, reauth>>

\* start(): the thread starts, and an initial status update is queued
Start ==
  /\ thread = "none"
  /\ stop_thread' = FALSE
  /\ thread' = "alive"
  /\ pc' = "loop"
  /\ queue' = Append(queue, StatusUpdateCmd)
  /\ last' = HostStep
  /\ signin_call' = NoSignIn
  /\ UNCHANGED started_after_stop
  /\ UNCHANGED idVars
  /\ UNCHANGED <<login_required, security_token, bad_calls, command, headers,
                 child_devices, current_client_list, managed, client_devices,
                 serverStates, devStates, cycle, root_failures, conn_failures, reauth>>

\* _process_queue with "while True": what the worker would do if it never
\* tested the stop flag
LoopCheck_never_exits ==
  /\ pc = "loop"
  /\ pc' = "get"
  /\ last' = WorkerStep
  /\ signin_call' = NoSignIn
  /\ UNCHANGED started_after_stop
  /\ UNCHANGED idVars
  /\ UNCHANGED <<login_required, security_token, bad_calls, queue, stop_thread,
                 thread, command, headers, child_devices, current_client_list,
                 managed, client_devices, serverStates, devStates, cycle,
                 root_failures, conn_failures, reauth>>

\* _process_queue draining before it exits: what the worker would do if the
\* stop flag took effect only once the queue is empty
LoopCheck_draining ==
  /\ pc = "loop"
  /\ IF stop_thread /\ queue = <<>>
     THEN pc' = "exited" /\ thread' = "exited"
     ELSE pc' = "get" /\ thread' = thread
  /\ last' = WorkerStep
  /\ signin_call' = NoSignIn
  /\ UNCHANGED started_after_stop
  /\ UNCHANGED idVars
  /\ UNCHANGED <<login_required, security_token, bad_calls, queue, stop_thread,
                 command, headers, child_devices, current_client_list, managed,
                 client_devices, serverStates, devStates, cycle, root_failures,
                 conn_failures, reauth>>

\* _process_queue: the while test
LoopCheck ==
  /\ pc = "loop"
  /\ IF stop_thread
     THEN pc' = "exited" /\ thread' = "exited"
     ELSE pc' = "get" /\ thread' = thread
  /\ last' = WorkerStep
  /\ signin_call' = NoSignIn
  /\ UNCHANGED started_after_stop
  /\ UNCHANGED idVars
  /\ UNCHANGED <<login_required, security_token, bad_calls, queue, stop_thread,
                 command, headers, child_devices, current_client_list, managed,
                 client_devices, serverStates, devStates, cycle, root_failures,
                 conn_failures, reauth>>

\* queue.get(timeout=0.5) ends in Empty, or returns the None sentinel
QueueGetNothing ==
  /\ pc = "get"
  /\ \/ queue = <<>> /\ queue' = queue
     \/ queue # <<>> /\ Head(queue) = Sentinel /\ queue' = Tail(queue)
  /\ pc' = "loop"
  /\ last' = WorkerStep
  /\ signin_call' = NoSignIn
  /\ UNCHANGED started_after_stop
  /\ UNCHANGED idVars
  /\ UNCHANGED <<login_required, security_token, bad_calls, stop_thread, thread,
                 command, headers, child_devices, current_client_list, managed,
                 client_devices, serverStates, devStates, cycle, root_failures,
                 conn_failures, reauth>>

\* _process_queue on a LIFO queue: what the worker would dispatch if get()
\* returned the newest command
BeginCommand_newest_first(signin) ==
  /\ pc = "get"
  /\ queue # <<>>
  /\ queue[Len(queue)] # Sentinel
  /\ signin \in (IF SignInNeeded(security_token, login_required)
                 THEN SignInOutcomes ELSE {NoSignIn})
  /\ queue' = SubSeq(queue, 1, Len(queue) - 1)
  /\ command' = queue[Len(queue)]
  /\ security_token' = retrieve_security_token(security_token, login_required, signin)
  /\ headers' = auth_header(security_token', login_required)
  /\ reauth' = SignedIn(reauth, security_token, login_required)
  /\ pc' = CASE queue[Len(queue)].command_type = "status_update" -> "root"
             [] queue[Len(queue)].command_type = "get_metadata" -> "metadata"
             [] queue[Len(queue)].command_type = "download_image" -> "image"
  /\ cycle' = IF queue[Len(queue)].command_type = "status_update" THEN NoCycle ELSE cycle
  /\ last' = WorkerStep
  /\ signin_call' = signin
  /\ started_after_stop' = IF stop_thread THEN started_after_stop + 1
                                           ELSE started_after_stop
  /\ UNCHANGED idVars
  /\ UNCHANGED <<login_required, bad_calls, stop_thread, thread, child_devices,
                 current_client_list, managed, client_devices, serverStates,
                 devStates, root_failures, conn_failures>>

\* queue.get returns a command; _execute_command dispatches it and the handler
\* runs up to its first request: _get_base_url, _get_auth_headers (with the
\* sign-in call when a login is required and no token is cached)
BeginCommand(signin) ==
  /\ pc = "get"
  /\ queue # <<>>
  /\ Head(queue) # Sentinel
  /\ signin \in (IF SignInNeeded(security_token, login_required)
                 THEN SignInOutcomes ELSE {NoSignIn})
  /\ queue' = Tail(queue)
  /\ command' = Head(queue)
  /\ security_token' = retrieve_security_token(security_token, login_required, signin)
  /\ headers' = auth_header(security_token', login_required)
  /\ reauth' = SignedIn(reauth, security_token, login_required)
  /\ pc' = CASE Head(queue).command_type = "status_update" -> "root"
             [] Head(queue).command_type = "get_metadata" -> "metadata"
             [] Head(queue).command_type = "download_image" -> "image"
  /\ cycle' = IF Head(queue).command_type = "status_update" THEN NoCycle ELSE cycle
  /\ last' = WorkerStep
  /\ signin_call' = signin
  /\ started_after_stop' = IF stop_thread THEN started_after_stop + 1
                                           ELSE started_after_stop
  /\ UNCHANGED idVars
  /\ UNCHANGED <<login_required, bad_calls, stop_thread, thread, child_devices,
                 current_client_list, managed, client_devices, serverStates,
                 devStates, root_failures, conn_failures>>

\* _do_status_update: GET / through _get, then _handle_server_info_response.
\* _get returns None for every exception, so the except branch of
\* _do_status_update (with its return) is never entered.
RootStep(r) ==
  /\ pc = "root"
  /\ r \in Outcomes(RootBodies)
  /\ security_token' = token_after_get(security_token, r)
  /\ bad_calls' = bad_calls_after_get(bad_calls, r)
  /\ LET w == [World EXCEPT !.server = connection_state_after_get(@, bad_calls, r)]
     IN  SetWorld(IF Truthy(r) THEN handle_server_info_response(w, r.body) ELSE w)
  /\ pc' = "clients"
  /\ cycle' = [cycle EXCEPT !.root = Verdict(r)]
  /\ root_failures' =
       IF Verdict(r) = "ok" THEN 0
       ELSE IF Verdict(r) \in {"connection_error", "timeout", "unparsable"}
       THEN (IF root_failures < MaxStreak THEN root_failures + 1 ELSE root_failures)
       ELSE root_failures
  /\ conn_failures' =
       IF Verdict(r) = "connection_error"
       THEN (IF conn_failures < MaxStreak THEN conn_failures + 1 ELSE conn_failures)
       ELSE 0
  /\ reauth' = Requested(reauth)
  /\ last' = Step("root", r, security_token)
  /\ signin_call' = NoSignIn
  /\ UNCHANGED started_after_stop
  /\ UNCHANGED idVars
  /\ UNCHANGED <<login_required, stop_thread, thread, command, headers,
                 child_devices, managed, client_devices>>

\* _do_status_update: GET /clients, then _handle_client_list_response
ClientsStep(r) ==
  /\ pc = "clients"
  /\ r \in Outcomes(ClientBodies)
  /\ security_token' = token_after_get(security_token, r)
  /\ bad_calls' = bad_calls_after_get(bad_calls, r)
  /\ LET w == [World EXCEPT !.server = connection_state_after_get(@, bad_calls, r)]
     IN  SetWorld(IF Truthy(r) THEN handle_client_list_response(w, child_devices, r.body)
                  ELSE w)
  /\ pc' = "sessions"
  /\ cycle' = [cycle EXCEPT !.clients = TRUE]
  /\ reauth' = Requested(reauth)
  /\ last' = Step("clients", r, security_token)
  /\ signin_call' = NoSignIn
  /\ UNCHANGED started_after_stop
  /\ UNCHANGED idVars
  /\ UNCHANGED <<login_required, stop_thread, thread, command, headers,
                 child_devices, managed, client_devices, root_failures, conn_failures>>

\* _do_status_update: GET /status/sessions, then _handle_sessions_response,
\* then last_update_time and bad_calls = 0; the worker returns to its loop
SessionsStep(r) ==
  /\ pc = "sessions"
  /\ r \in Outcomes(AnySessionBodies)
  /\ LET w == [World EXCEPT !.server = connection_state_after_get(@, bad_calls, r)]
         w2 == IF Truthy(r) THEN handle_sessions_response(w, child_devices, r.body) ELSE w
     IN  /\ Len(w2.q) <= MaxQueue
         /\ SetWorld(w2)
         /\ cycle' = [cycle EXCEPT !.sessions = TRUE, !.reconciled = w2.reconciled]
  /\ security_token' = token_after_get(security_token, r)
  /\ bad_calls' = 0
  /\ pc' = "loop"
  /\ reauth' = IF Requested(reauth) # "stale"
                  /\ token_after_get(security_token, r) # security_token
               THEN "due" ELSE Requested(reauth)
  /\ last' = Step("sessions", r, security_token)
  /\ signin_call' = NoSignIn
  /\ UNCHANGED started_after_stop
  /\ UNCHANGED idVars
  /\ UNCHANGED <<login_required, stop_thread, thread, command, headers,
                 child_devices, managed, client_devices, root_failures, conn_failures>>

\* register_client
register_client(roster, d) ==
  IF plexClientId(d) # "" THEN [roster EXCEPT ![plexClientId(d)] = d] ELSE roster

\* unregister_client
unregister_client(roster, d) ==
  IF plexClientId(d) # "" /\ InRoster(roster, plexClientId(d))
  THEN [roster EXCEPT ![plexClientId(d)] = NoDev]
  ELSE roster

\* The sessions request of _do_status_update answered while deviceStartComm
\* or deviceStopComm of the client device d runs on the host's thread and
\* changes the roster in the middle of the scan
SessionsStepRosterChanged(r, d, visited) ==
  /\ pc = "sessions"
  /\ r \in Outcomes(AnySessionBodies)
  /\ Truthy(r)
  /\ managed
  /\ visited \subseteq Registered(child_devices)
  /\ child_devices' = IF d \in client_devices THEN unregister_client(child_devices, d)
                                                ELSE register_client(child_devices, d)
  /\ Registered(child_devices') # Registered(child_devices)
  /\ client_devices' = IF d \in client_devices THEN client_devices \ {d}
                                                 ELSE client_devices \cup {d}
  /\ LET w == [World EXCEPT !.server = connection_state_after_get(@, bad_calls, r)]
         w2 == handle_sessions_response_roster_changed(w, child_devices, r.body, visited)
     IN  /\ Len(w2.q) <= MaxQueue
         /\ devStates' = [w2.st EXCEPT ![d].clientConnectionStatus = "disconnected"]
         /\ queue' = w2.q
         /\ serverStates' = w2.server
         /\ current_client_list' = w2.current_client_list
         /\ cycle' = [cycle EXCEPT !.sessions = TRUE, !.reconciled = w2.reconciled]
  /\ command_id' = IF d \in client_devices THEN command_id
                                             ELSE [command_id EXCEPT ![d] = 0]
  /\ issued' = IF d \in client_devices THEN issued ELSE [issued EXCEPT ![d] = <<>>]
  /\ loaded' = IF d \in client_devices THEN loaded
               ELSE [t \in Callers |->
                       IF loaded[t].dev = d THEN [loaded[t] EXCEPT !.stale = TRUE]
                                            ELSE loaded[t]]
  /\ security_token' = token_after_get(security_token, r)
  /\ bad_calls' = 0
  /\ pc' = "loop"
  /\ reauth' = IF Requested(reauth) # "stale"
                  /\ token_after_get(security_token, r) # security_token
               THEN "due" ELSE Requested(reauth)
  /\ last' = Step("sessions", r, security_token)
  /\ signin_call' = NoSignIn
  /\ UNCHANGED started_after_stop
  /\ UNCHANGED <<login_required, stop_thread, thread, command, headers,
                 managed, root_failures, conn_failures>>

\* _do_get_metadata: GET <media key> through _get, then _handle_metadata_response
MetadataStep(r) ==
  /\ pc = "metadata"
  /\ r \in Outcomes(MetadataBodies)
  /\ security_token' = token_after_get(security_token, r)
  /\ bad_calls' = bad_calls_after_get(bad_calls, r)
  /\ LET w == [World EXCEPT !.server = connection_state_after_get(@, bad_calls, r)]
     IN  SetWorld(IF Truthy(r) THEN handle_metadata_response(w, child_devices, r.body)
                  ELSE w)
  /\ pc' = "loop"
  /\ reauth' = Requested(reauth)
  /\ last' = Step("metadata", r, security_token)
  /\ signin_call' = NoSignIn
  /\ UNCHANGED started_after_stop
  /\ UNCHANGED idVars
  /\ UNCHANGED <<login_required, stop_thread, thread, command, headers,
                 child_devices, managed, client_devices, cycle, root_failures,
                 conn_failures>>

\* _do_download_image without its try: what the worker would do if an
\* exception of the download ended the thread
ImageStep_uncaught(r) ==
  /\ pc = "image"
  /\ r \in Outcomes({})
  /\ IF r.kind = "response"
     THEN pc' = "loop" /\ thread' = thread
     ELSE pc' = "exited" /\ thread' = "exited"
  /\ reauth' = Requested(reauth)
  /\ last' = Step("image", r, security_token)
  /\ signin_call' = NoSignIn
  /\ UNCHANGED started_after_stop
  /\ UNCHANGED idVars
  /\ UNCHANGED <<login_required, security_token, bad_calls, queue, stop_thread,
                 command, headers, child_devices, current_client_list,
                 managed, client_devices, serverStates, devStates, cycle,
                 root_failures, conn_failures>>

\* _do_download_image: requests.get called directly (not through _get); the
\* body goes to the destination file, outside this state
ImageStep(r) ==
  /\ pc = "image"
  /\ r \in Outcomes({})
  /\ pc' = "loop"
  /\ reauth' = Requested(reauth)
  /\ last' = Step("image", r, security_token)
  /\ signin_call' = NoSignIn
  /\ UNCHANGED started_after_stop
  /\ UNCHANGED idVars
  /\ UNCHANGED <<login_required, security_token, bad_calls, queue, stop_thread,
                 thread, command, headers, child_devices, current_client_list,
                 managed, client_devices, serverStates, devStates, cycle,
                 root_failures, conn_failures>>

\* ------------------------------------------------------------ host threads
\* Plugin.deviceStopComm for the server device: stop() sets the flag, queues
\* the None sentinel and joins for at most 2 s; then the object leaves
\* managed_devices and the state becomes 'Disabled'
DeviceStopCommServer ==
  /\ managed
  /\ thread # "none"
  /\ stop_thread' = TRUE
  /\ queue' = Append(queue, Sentinel)
  /\ managed' = FALSE
  /\ serverStates' = [serverStates EXCEPT !.connectionState = "Disabled"]
  /\ last' = HostStep
  /\ signin_call' = NoSignIn
  /\ UNCHANGED started_after_stop
  /\ UNCHANGED idVars
  /\ UNCHANGED <<login_required, security_token, bad_calls, thread, pc, command,
                 headers, child_devices, current_client_list, client_devices,
                 devStates, cycle, root_failures, conn_failures, reauth>>

\* Plugin.runConcurrentThread: the poll interval has elapsed
\* (_time_to_update), queue_status_update(). The loop walks a snapshot of
\* managed_devices, so the call can reach a server object that deviceStopComm
\* has removed since.
QueueStatusUpdate ==
  /\ thread # "none"
  /\ Len(queue) < MaxQueue
  /\ queue' = Append(queue, StatusUpdateCmd)
  /\ last' = QueuedStep
  /\ signin_call' = NoSignIn
  /\ UNCHANGED started_after_stop
  /\ UNCHANGED idVars
  /\ UNCHANGED <<login_required, security_token, bad_calls, stop_thread, thread,
                 pc, command, headers, child_devices, current_client_list, managed,
                 client_devices, serverStates, devStates, cycle, root_failures,
                 conn_failures, reauth>>

art_state_keys ==
  {"currentlyPlayingThumbnailUrl", "currentlyPlayingArtUrl",
   "currentlyPlayingParentThumbnailUrl", "currentlyPlayingGrandparentArtUrl",
   "currentlyPlayingGrandparentThumbnailUrl"}

\* Plugin.downloadCurrentlyPlayingArt: queue_image_download of the art URL
\* the device currently shows
DownloadCurrentlyPlayingArt(d, state_key) ==
  /\ d \in client_devices
  /\ state_key \in art_state_keys
  /\ devStates[d][state_key] # ""
  /\ managed
  /\ thread # "none"
  /\ Len(queue) < MaxQueue
  /\ queue' = Append(queue, DownloadImageCmd(devStates[d][state_key]))
  /\ last' = QueuedStep
  /\ signin_call' = NoSignIn
  /\ UNCHANGED started_after_stop
  /\ UNCHANGED idVars
  /\ UNCHANGED <<login_required, security_token, bad_calls, stop_thread, thread,
                 pc, command, headers, child_devices, current_client_list, managed,
                 client_devices, serverStates, devStates, cycle, root_failures,
                 conn_failures, reauth>>

\* PlexClient.client_id: the bound identifier of a slot, the configured
\* machine ID of a client
client_id(d) ==
  IF deviceTypeId(d) = "plexMediaClientSlot"
  THEN Get(devStates[d], "clientId", "")
  ELSE plexClientId(d)

\* send_client_playback_command going through the queue: what the plugin
\* would do if the playback command were a CLIENT_COMMAND for the worker
SendClientPlaybackCommand_queued(d, signin, r) ==
  /\ d \in client_devices
  /\ devStates[d].clientAddress # ""
  /\ devStates[d].clientPort > 0
  /\ client_id(d) # ""
  /\ managed
  /\ thread # "none"
  /\ signin = NoSignIn
  /\ r \in Outcomes({})
  /\ Len(issued[d]) < MaxCommandId
  /\ command_id' = [command_id EXCEPT ![d] = @ + 1]
  /\ issued' = [issued EXCEPT ![d] = Append(@, command_id[d] + 1)]
  /\ queue' = Append(queue, [command_type |-> "client_command", payload |-> <<d>>])
  /\ last' = Step("playback", NoRequest, security_token)
  /\ signin_call' = NoSignIn
  /\ UNCHANGED started_after_stop
  /\ UNCHANGED <<login_required, security_token, bad_calls, stop_thread, thread, pc,
                 command, headers, child_devices, current_client_list, managed,
                 client_devices, serverStates, devStates, cycle, root_failures,
                 conn_failures, reauth, loaded>>

\* Plugin.sendClientPlaybackCommand and PlexServer.send_client_playback_command,
\* on the caller's thread with no other caller in between:
\* get_next_command_id, _retrieve_security_token, then requests.get to the
\* player (not through _get); the response is logged
SendClientPlaybackCommand(d, signin, r) ==
  /\ d \in client_devices
  /\ devStates[d].clientAddress # ""
  /\ devStates[d].clientPort > 0
  /\ client_id(d) # ""
  /\ managed
  /\ thread # "none"
  /\ signin \in (IF SignInNeeded(security_token, login_required)
                 THEN SignInOutcomes ELSE {NoSignIn})
  /\ r \in Outcomes({})
  /\ Len(issued[d]) < MaxCommandId
  /\ command_id' = [command_id EXCEPT ![d] = @ + 1]
  /\ issued' = [issued EXCEPT ![d] = Append(@, command_id[d] + 1)]
  /\ security_token' = retrieve_security_token(security_token, login_required, signin)
  /\ reauth' = Requested(SignedIn(reauth, security_token, login_required))
  /\ last' = Step("playback", r, security_token')
  /\ signin_call' = signin
  /\ UNCHANGED started_after_stop
  /\ UNCHANGED loaded
  /\ UNCHANGED <<login_required, bad_calls, queue, stop_thread, thread, pc, command,
                 headers, child_devices, current_client_list, managed,
                 client_devices, serverStates, devStates, cycle, root_failures,
                 conn_failures>>

\* Plugin.sendClientPlaybackCommand on a caller thread, up to the read of
\* self._command_id in get_next_command_id ("self._command_id += 1" reads,
\* adds and writes, under no lock)
GetNextCommandIdLoad(t, d) ==
  /\ loaded[t] = NoLoad
  /\ d \in client_devices
  /\ devStates[d].clientAddress # ""
  /\ devStates[d].clientPort > 0
  /\ client_id(d) # ""
  /\ managed
  /\ thread # "none"
  /\ Len(issued[d]) < MaxCommandId
  /\ loaded' = [loaded EXCEPT ![t] = [dev |-> d, value |-> command_id[d], stale |-> FALSE]]
  /\ last' = HostStep
  /\ signin_call' = NoSignIn
  /\ UNCHANGED started_after_stop
  /\ UNCHANGED <<serverVars, child_devices, managed, client_devices, devStates, cycle,
                 root_failures, conn_failures, reauth, command_id, issued>>

\* the rest of it: get_next_command_id writes the sum and returns it, then
\* send_client_playback_command as above
SendClientPlaybackCommandStore(t, signin, r) ==
  /\ loaded[t] # NoLoad
  /\ signin \in (IF SignInNeeded(security_token, login_required)
                 THEN SignInOutcomes ELSE {NoSignIn})
  /\ r \in Outcomes({})
  /\ IF loaded[t].stale
     THEN UNCHANGED <<command_id, issued>>
     ELSE /\ command_id' = [command_id EXCEPT ![loaded[t].dev] = loaded[t].value + 1]
          /\ issued' = [issued EXCEPT ![loaded[t].dev] = Append(@, loaded[t].value + 1)]
  /\ loaded' = [loaded EXCEPT ![t] = NoLoad]
  /\ security_token' = retrieve_security_token(security_token, login_required, signin)
  /\ reauth' = Requested(SignedIn(reauth, security_token, login_required))
  /\ last' = Step("playback", r, security_token')
  /\ signin_call' = signin
  /\ UNCHANGED started_after_stop
  /\ UNCHANGED <<login_required, bad_calls, queue, stop_thread, thread, pc, command,
                 headers, child_devices, current_client_list, managed,
                 client_devices, serverStates, devStates, cycle, root_failures,
                 conn_failures>>

\* Plugin.deviceStartComm for a client device: a new PlexClient object, whose
\* _command_id is 0; a caller inside get_next_command_id holds the old object
DeviceStartCommClient(d) ==
  /\ d \in Devs \ client_devices
  /\ thread # "none"
  /\ devStates' = [devStates EXCEPT ![d].clientConnectionStatus = "disconnected"]
  /\ client_devices' = client_devices \cup {d}
  /\ child_devices' = IF managed THEN register_client(child_devices, d) ELSE child_devices
  /\ command_id' = [command_id EXCEPT ![d] = 0]
  /\ issued' = [issued EXCEPT ![d] = <<>>]
  /\ loaded' = [t \in Callers |->
                  IF loaded[t].dev = d THEN [loaded[t] EXCEPT !.stale = TRUE] ELSE loaded[t]]
  /\ last' = HostStep
  /\ signin_call' = NoSignIn
  /\ UNCHANGED started_after_stop
  /\ UNCHANGED <<serverVars, managed, cycle, root_failures, conn_failures, reauth>>

\* Plugin.deviceStopComm for a client device
DeviceStopCommClient(d) ==
  /\ d \in client_devices
  /\ child_devices' = IF managed THEN unregister_client(child_devices, d) ELSE child_devices
  /\ client_devices' = client_devices \ {d}
  /\ devStates' = [devStates EXCEPT ![d].clientConnectionStatus = "disconnected"]
  /\ last' = HostStep
  /\ signin_call' = NoSignIn
  /\ UNCHANGED started_after_stop
  /\ UNCHANGED idVars
  /\ UNCHANGED <<serverVars, managed, cycle, root_failures, conn_failures, reauth>>

\* ---------------------------------------------------------- specification
\* Every action with every input: the whole system.  The specifications
\* below are this system in one environment each.
Next ==
  \/ Start
  \/ LoopCheck
  \/ QueueGetNothing
  \/ \E signin \in SignInOutcomes \cup {NoSignIn} : BeginCommand(signin)
  \/ \E r \in Outcomes(RootBodies) : RootStep(r)
  \/ \E r \in Outcomes(ClientBodies) : ClientsStep(r)
  \/ \E r \in Outcomes(SessionBodies) : SessionsStep(r)
  \/ \E r \in Outcomes(SessionBodies), d \in Devs, visited \in SUBSET Devs :
        SessionsStepRosterChanged(r, d, visited)
  \/ \E r \in Outcomes(MetadataBodies) : MetadataStep(r)
  \/ \E r \in Outcomes({}) : ImageStep(r)
  \/ DeviceStopCommServer
  \/ QueueStatusUpdate
  \/ \E d \in Devs, state_key \in art_state_keys : DownloadCurrentlyPlayingArt(d, state_key)
  \/ \E d \in Devs, signin \in SignInOutcomes \cup {NoSignIn}, r \in Outcomes({}) :
        SendClientPlaybackCommand(d, signin, r)
  \/ \E t \in Callers, d \in Devs : GetNextCommandIdLoad(t, d)
  \/ \E t \in Callers, signin \in SignInOutcomes \cup {NoSignIn}, r \in Outcomes({}) :
        SendClientPlaybackCommandStore(t, signin, r)
  \/ \E d \in Devs : DeviceStartCommClient(d)
  \/ \E d \in Devs : DeviceStopCommClient(d)

Spec == Init /\ [][Next]_vars

\* The server polled with no client device started and nothing playing:
\* every request may end in any way.
IdleSessions == {SessionsXml(<<>>)}
IdleClients == {Xml(EmptyDict, <<>>)}

NextPoll ==
  \/ Start
  \/ LoopCheck
  \/ QueueGetNothing
  \/ \E signin \in SignInOutcomesOf({"tok1"}) \cup {NoSignIn} : BeginCommand(signin)
  \/ \E r \in Outcomes(RootBodies) : RootStep(r)
  \/ \E r \in Outcomes(IdleClients) : ClientsStep(r)
  \/ \E r \in Outcomes(IdleSessions) : SessionsStep(r)
  \/ DeviceStopCommServer
  \/ QueueStatusUpdate

SpecPoll == Init /\ [][NextPoll]_vars

\* A reachable server that asks for no login: every request is answered 200
\* with a well-formed body, while an Identified client and the Slot 2 device
\* start and stop and the sessions come and go.  No player is in the /clients
\* list and the metadata answers carry no directory.
Answered(bodies) == {Response(200, b) : b \in bodies}

ReconDevs == {"c1", "s2"}

NextRecon ==
  \/ Start
  \/ LoopCheck
  \/ QueueGetNothing
  \/ BeginCommand(NoSignIn)
  \/ \E r \in Answered(RootBodies) : RootStep(r)
  \/ \E r \in Answered(IdleClients) : ClientsStep(r)
  \/ \E r \in Answered(SessionBodies) : SessionsStep(r)
  \/ \E r \in Answered({Xml(EmptyDict, <<>>)}) : MetadataStep(r)
  \/ QueueStatusUpdate
  \/ \E d \in ReconDevs : DeviceStartCommClient(d)
  \/ \E d \in ReconDevs : DeviceStopCommClient(d)

\* pluginProps['loginRequired'] is false
InitRecon == Init /\ ~login_required

SpecRecon == InitRecon /\ [][NextRecon]_vars

\* A server that asks for a login, reachable, with the Identified client
\* playing or not: every request is answered 200 or 401, the user downloads
\* art and sends one playback command to each client object.
Authenticated(bodies) == Answered(bodies) \cup {Response(401, Malformed)}

AuthDevs == {"c1"}

NextAuth ==
  \/ Start
  \/ LoopCheck
  \/ QueueGetNothing
  \/ \E signin \in SignInOutcomesOf({"tok1"}) \cup {NoSignIn} : BeginCommand(signin)
  \/ \E r \in Authenticated(RootBodies) : RootStep(r)
  \/ \E r \in Authenticated({Xml(EmptyDict, <<ServerA>>)}) : ClientsStep(r)
  \/ \E r \in Authenticated({SessionsXml(<<>>), SessionsXml(<<VideoEpisode>>)}) :
        SessionsStep(r)
  \/ \E r \in Authenticated({Xml(EmptyDict, <<DirectoryShow>>)}) : MetadataStep(r)
  \/ \E r \in Authenticated({}) : ImageStep(r)
  \/ QueueStatusUpdate
  \/ \E d \in AuthDevs : DownloadCurrentlyPlayingArt(d, "currentlyPlayingThumbnailUrl")
  \/ \E d \in AuthDevs, signin \in SignInOutcomesOf({"tok1"}) \cup {NoSignIn},
        r \in Authenticated({}) :
          issued[d] = <<>> /\ SendClientPlaybackCommand(d, signin, r)
  \/ \E d \in AuthDevs : DeviceStartCommClient(d)
  \/ \E d \in AuthDevs : DeviceStopCommClient(d)

\* pluginProps['loginRequired'] is true
InitAuth == Init /\ login_required

SpecAuth == InitAuth /\ [][NextAuth]_vars

\* -------------------------------------------------------------- properties
\* how the root request of a poll can fail
RootFailed == {"connection_error", "timeout", "unparsable"}

\* the poll has just ended: its sessions request was the last step
PollEnded == last.op = "sessions"

\* C1: when the root request ends in a connection failure in 5 consecutive
\* polls, the server's connectionState is 'Disconnected' after the 5th poll
\* (for a server device that is still running).
C1_FiveRootConnectionFailures ==
  (managed /\ PollEnded /\ conn_failures >= MAX_BAD_CALLS)
    => serverStates.connectionState = "Disconnected"

\* five polls in a row whose root request ended in a connection failure
C1_Reached ==
  managed /\ PollEnded /\ conn_failures >= MAX_BAD_CALLS
    /\ serverStates.connectionState # "Disconnected"

\* C2: between commands, bad_calls is the number of polls whose root request
\* failed (connection failure, timeout, unparsable body) since the last poll
\* whose root request succeeded.
C2_BadCallsCountsFailedRoots ==
  (pc \in {"loop", "get"} /\ root_failures < MaxStreak) => bad_calls = root_failures

\* a poll whose root request failed has ended and the counter is back at zero
C2_Reached ==
  pc = "loop" /\ PollEnded /\ cycle.root \in RootFailed /\ bad_calls = 0

\* C3: in a poll whose root request failed, neither /clients nor
\* /status/sessions is requested and no reconciliation runs.
C3_FailedRootAbortsPoll ==
  cycle.root \in RootFailed => ~cycle.clients /\ ~cycle.sessions /\ ~cycle.reconciled

\* a poll whose root request failed went on to reconcile the session list
C3_Reached ==
  cycle.root \in RootFailed /\ cycle.clients /\ cycle.sessions /\ cycle.reconciled

\* the session list of the poll that has just ended, as the parser exposes it
LastSessions == PlexMediaContainer(last.request.body, "/status/sessions").video_sessions

PlayerMachineId(session) == Get(session.player_info, "machineIdentifier", "")

\* the poll has just ended and its reconciliation ran
Reconciled == PollEnded /\ cycle.reconciled

IsSlot(d) == deviceTypeId(d) = "plexMediaClientSlot"

\* the registered device was matched by the session list: an Identified
\* device by its machine ID, a Slotted one by its ordinal
Matched(d) ==
  IF IsSlot(d)
  THEN SlotNumber(plexClientId(d)) <= Len(LastSessions)
  ELSE \E i \in DOMAIN LastSessions : PlayerMachineId(LastSessions[i]) = plexClientId(d)

\* every playback field is empty, 0 or 'unknown'
Cleared(st) ==
  /\ st.currentlyPlayingMediaType \in {"", "unknown"}
  /\ \A k \in DOMAIN disconnected_states \ {"clientConnectionStatus", "currentlyPlayingMediaType"} :
        st[k] = disconnected_states[k]

\* C4: at the end of a poll every registered device that the session list
\* matched neither by machine ID nor by slot ordinal is 'disconnected' with
\* all its playback fields cleared.
C4_UnmatchedIsReset ==
  Reconciled =>
    \A d \in Registered(child_devices) :
       ~Matched(d) => /\ devStates[d].clientConnectionStatus = "disconnected"
                      /\ Cleared(devStates[d])

\* an unmatched registered device ends the poll with playback fields set
C4_Reached ==
  Reconciled /\ \E d \in Registered(child_devices) : ~Matched(d) /\ ~Cleared(devStates[d])

\* C5: after a reconciliation over n sessions every registered Slotted device
\* whose ordinal is greater than n is 'disconnected' with an empty clientId.
C5_SlotBeyondListIsUnbound ==
  Reconciled =>
    \A d \in Registered(child_devices) :
       (IsSlot(d) /\ SlotNumber(plexClientId(d)) > Len(LastSessions))
         => /\ devStates[d].clientConnectionStatus = "disconnected"
            /\ devStates[d].clientId = ""

\* the Slot 2 device was occupied by a poll (its metadata command is still
\* waiting) and the poll after it, with no session, has unbound it
C5_Reached ==
  /\ Reconciled
  /\ LastSessions = <<>>
  /\ "s2" \in Registered(child_devices)
  /\ devStates["s2"].clientConnectionStatus = "disconnected"
  /\ devStates["s2"].clientId = ""
  /\ devStates["s2"].currentlyPlayingMediaType = "unknown"
  /\ \E i \in DOMAIN queue : queue[i] = GetMetadataCmd("s2", "/library/metadata/1")

\* C6: a Slotted device whose clientConnectionStatus is 'disconnected' has
\* an empty clientId, in every reachable state.
C6_DisconnectedSlotIsUnbound ==
  \A d \in Devs :
     (IsSlot(d) /\ devStates[d].clientConnectionStatus = "disconnected")
       => devStates[d].clientId = ""

\* a Slotted device is 'disconnected' and still bound
C6_Reached ==
  \E d \in Devs : /\ IsSlot(d)
                  /\ devStates[d].clientConnectionStatus = "disconnected"
                  /\ devStates[d].clientId # ""

\* C7: after a reconciliation over n sessions, the device registered as
\* 'Slot k' (k in 1..n) has the player machine ID of the k-th visited session
\* as its clientId and that session's player state ('connected' when the
\* player gives none) as its clientConnectionStatus.
C7_SlotBoundToKthSession ==
  Reconciled =>
    \A k \in DOMAIN LastSessions :
       InRoster(child_devices, SlotLabel(k)) =>
         LET st == devStates[child_devices[SlotLabel(k)]]
         IN  /\ st.clientId = PlayerMachineId(LastSessions[k])
             /\ st.clientConnectionStatus =
                  Get(LastSessions[k].player_info, "state", "connected")

\* the response lists the track before the episode, the episode is visited
\* first, and the Slot 2 device is bound to the track's player
C7_Reached ==
  /\ Reconciled
  /\ last.request.body.nodes = <<TrackSong, VideoEpisode>>
  /\ InRoster(child_devices, "Slot 2")
  /\ devStates["s2"].clientId = "mB"
  /\ devStates["s2"].clientConnectionStatus = "connected"

\* the (machineId, displayName) pairs of the sessions that name a player
RECURSIVE ClientMenu(_)
ClientMenu(sessions) ==
  IF sessions = <<>> THEN <<>>
  ELSE LET id == PlayerMachineId(Head(sessions))
       IN  (IF id # "" THEN <<<<id, Get(Head(sessions).player_info, "title", id)>>>> ELSE <<>>)
             \o ClientMenu(Tail(sessions))

Unauthorized(ops) ==
  /\ last.op \in ops
  /\ last.request.kind = "response"
  /\ last.request.status_code = 401
  /\ last.token_before # ""

\* C9: a 401 on /status/sessions with a token cached leaves the token empty
\* and the failure counter not incremented, and no request goes out after it
\* before a new sign-in call.
C9_SessionsUnauthorized ==
  /\ Unauthorized({"sessions"}) => security_token = "" /\ bad_calls <= last.bad_before
  /\ reauth # "stale"

\* after such a 401 the worker signed in again and its next request, the root
\* request of the following poll, went out with the new token
C9_Reached ==
  /\ reauth = "retried"
  /\ last.op = "root"
  /\ last.token_before # ""

\* C10: whatever authenticated request the server object makes (root,
\* clients, sessions, metadata, image download, playback command), a 401
\* received while a token is cached leaves the cached token empty.
C10_UnauthorizedClearsToken ==
  Unauthorized({"root", "clients", "sessions", "metadata", "image", "playback"})
    => security_token = ""

\* a 401 on an image download or a playback command, the token still cached
C10_Reached ==
  Unauthorized({"image", "playback"}) /\ security_token # ""

\* -------------------------------------------------------- the cached token
\* A server that asks for a login and is signed in with either of two tokens:
\* every request is answered 200 or 401, the Identified client plays or not,
\* and the user sends playback commands to it.
NextToken ==
  \/ Start
  \/ LoopCheck
  \/ QueueGetNothing
  \/ \E signin \in SignInOutcomes \cup {NoSignIn} : BeginCommand(signin)
  \/ \E r \in Authenticated(RootBodies) : RootStep(r)
  \/ \E r \in Authenticated({Xml(EmptyDict, <<ServerA>>)}) : ClientsStep(r)
  \/ \E r \in Authenticated({SessionsXml(<<>>), SessionsXml(<<VideoEpisode>>)}) :
        SessionsStep(r)
  \/ \E r \in Answered({Xml(EmptyDict, <<>>)}) : MetadataStep(r)
  \/ QueueStatusUpdate
  \/ \E d \in AuthDevs, signin \in SignInOutcomes \cup {NoSignIn},
        r \in Authenticated({}) : SendClientPlaybackCommand(d, signin, r)
  \/ \E d \in AuthDevs : DeviceStartCommClient(d)

SpecToken == InitAuth /\ [][NextToken]_vars

\* the worker's states inside a command handler
Handling == {"root", "clients", "sessions", "metadata", "image"}

\* this step dispatches a command (_execute_command)
Dispatch == pc = "get" /\ pc' \in Handling

\* this step runs _retrieve_security_token: the dispatch of a command
\* (_get_auth_headers of a server that asks for a login) or a playback command
Retrieval == (Dispatch /\ login_required) \/ last'.op = "playback"

\* the sign-in call answered 201 with a token field
SignInSucceeded(call) ==
  call.kind = "response" /\ call.status_code = 201 /\ call.token # ""

\* C11: the cached token is empty at first, and a step that sets it to a
\* non-empty value is one whose sign-in call answered 201 with that value in
\* its token field: the token is always empty or was issued by a sign-in.
C11_TokenIssuedBySignIn ==
  [][(security_token' # "" /\ security_token' # security_token)
       => (SignInSucceeded(signin_call') /\ signin_call'.token = security_token')]_vars

\* a 401 has cleared the first token and the sign-in that followed issued the
\* second
C11_Reached ==
  /\ reauth = "signed"
  /\ signin_call = SignIn(201, "tok2")
  /\ security_token = "tok2"

\* C12: a token retrieval with a non-empty token cached makes no sign-in call
\* and leaves the token as it was, every time it is called.
C12_RetrievalIdempotent ==
  [][(Retrieval /\ security_token # "")
       => (signin_call' = NoSignIn /\ security_token' = security_token)]_vars

\* a playback command went out with the cached token and no sign-in call
C12_Reached ==
  /\ last.op = "playback"
  /\ last.token_before # ""
  /\ signin_call = NoSignIn
  /\ security_token = last.token_before

\* the sign-in call of the step just taken did not yield a token
SignInFailed == signin_call # NoSignIn /\ ~SignInSucceeded(signin_call)

\* C13: after a sign-in call that ends in a status other than 201, in a 201
\* without a token field or in an exception, the cached token is empty and
\* the caller goes on; the next retrieval signs in again.
C13_FailedSignInLeavesNoToken ==
  /\ [](SignInFailed => (security_token = "" /\ (last.op = "playback" \/ pc \in Handling)))
  /\ [][(Retrieval /\ security_token = "" /\ login_required)
          => signin_call' # NoSignIn]_vars

\* a poll went out without a token after a sign-in call that answered 201
\* with no token field
C13_Reached ==
  /\ signin_call = SignIn(201, "")
  /\ pc = "root"
  /\ security_token = ""
  /\ headers = ""

\* C14: no step taken on a caller's thread (queueing, playback command,
\* registration) writes the cached token or the failure counter.
C14_WorkerIsOnlyWriter ==
  [][(last'.op \in {"host", "queued", "playback"})
       => (security_token' = security_token /\ bad_calls' = bad_calls)]_vars

\* a playback command, on the caller's thread, signed in and cached a token
C14_Reached ==
  /\ last.op = "playback"
  /\ SignInSucceeded(signin_call)
  /\ security_token = signin_call.token

\* ------------------------------------------------- the worker's lifecycle
\* PlexServer.stop(), called by Plugin.deviceStopComm: the flag, the None
\* sentinel, and a join that gives up after 2 s (a request may take 10 s, an
\* image download 30 s), so stop() returns with the worker wherever it is
stop ==
  /\ managed
  /\ thread # "none"
  /\ ~stop_thread
  /\ Len(queue) < MaxQueue
  /\ stop_thread' = TRUE
  /\ queue' = Append(queue, Sentinel)
  /\ last' = HostStep
  /\ signin_call' = NoSignIn
  /\ UNCHANGED started_after_stop
  /\ UNCHANGED idVars
  /\ UNCHANGED <<login_required, security_token, bad_calls, thread, pc, command,
                 headers, child_devices, current_client_list, managed,
                 client_devices, serverStates, devStates, cycle, root_failures,
                 conn_failures, reauth>>

\* Plugin.deviceStopComm for the server device once stop() has returned: the
\* object leaves managed_devices and connectionState becomes 'Disabled'
DeviceStopCommServerEnd ==
  /\ managed
  /\ stop_thread
  /\ managed' = FALSE
  /\ serverStates' = [serverStates EXCEPT !.connectionState = "Disabled"]
  /\ last' = HostStep
  /\ signin_call' = NoSignIn
  /\ UNCHANGED started_after_stop
  /\ UNCHANGED idVars
  /\ UNCHANGED <<login_required, security_token, bad_calls, queue, stop_thread,
                 thread, pc, command, headers, child_devices, current_client_list,
                 client_devices, devStates, cycle, root_failures, conn_failures,
                 reauth>>

\* A server that asks for no login, from its start to the end of its
\* communication: a request is answered or ends in an exception, the
\* Identified client plays or not, the user downloads its art, polls are
\* queued at any time.
Raising(bodies) == Answered(bodies) \cup {ConnectionError, Timeout}

LifeDevs == {"c1"}

\* the worker thread's steps
Worker ==
  \/ LoopCheck
  \/ QueueGetNothing
  \/ BeginCommand(NoSignIn)
  \/ \E r \in Answered(RootBodies) \cup {ConnectionError} : RootStep(r)
  \/ \E r \in Answered(IdleClients) : ClientsStep(r)
  \/ \E r \in Answered({SessionsXml(<<VideoEpisode>>)}) \cup {Timeout} : SessionsStep(r)
  \/ \E r \in Raising({Xml(EmptyDict, <<>>)}) : MetadataStep(r)
  \/ \E r \in Raising({}) : ImageStep(r)

NextLife ==
  \/ Start
  \/ Worker
  \/ stop
  \/ DeviceStopCommServerEnd
  \/ QueueStatusUpdate
  \/ \E d \in LifeDevs : DownloadCurrentlyPlayingArt(d, "currentlyPlayingThumbnailUrl")
  \/ \E d \in LifeDevs : DeviceStartCommClient(d)

SpecLife == InitRecon /\ [][NextLife]_vars

\* The thread is scheduled and every HTTP call returns within its timeout:
\* a worker step that can be taken is taken.
SpecLifeFair == SpecLife /\ WF_vars(Worker)

\* ------------------------------------------------------------ properties
\* a handler of the worker has just been entered with the command it took
Dispatched == last = WorkerStep /\ pc \in Handling

\* C15: the commands of one server run one at a time in the order they were
\* queued: the worker takes the oldest command of the queue and nothing else
\* leaves the queue, producers only append behind what is queued, and a
\* handler is entered only by the worker between two commands, so never
\* while another handler runs.
C15_OneAtATimeInOrder ==
  [][/\ Dispatch => (command' = Head(queue) /\ queue' = Tail(queue))
     /\ (command' # command \/ (pc \notin Handling /\ pc' \in Handling)) => Dispatch
     /\ (queue' # queue /\ last'.op # "worker")
          => (Len(queue') > Len(queue) /\ SubSeq(queue', 1, Len(queue)) = queue)
     /\ (queue' # queue /\ last'.op = "worker") => queue' = Tail(queue)]_vars

\* the worker took an image download while a status poll queued later waits
C15_Reached ==
  /\ Dispatched /\ command.command_type = "download_image"
  /\ queue = <<StatusUpdateCmd>>

\* a request of the worker has just ended in an exception
Raised == last.op \in Handling /\ last.request.kind \in {"connection_error", "timeout"}

Queued(command_type) == \E i \in 1..Len(queue) : queue[i].command_type = command_type

\* CommandType, but for CLIENT_COMMAND, which no queue_* method creates
CommandTypes == {"status_update", "get_metadata", "download_image"}

\* C16: an exception in a handler does not end the worker: when a request has
\* ended in an exception, the thread is alive, in the same handler or back at
\* its while test, and whatever command is queued behind the failed one is
\* taken and dispatched later on, unless stop() is called first.
C16_FailingCommandDoesNotBlock ==
  /\ [](Raised => (thread = "alive" /\ pc \in Handling \cup {"loop"}))
  /\ \A t \in CommandTypes :
       (Raised /\ ~stop_thread /\ Queued(t))
         ~> ((Dispatched /\ command.command_type = t) \/ stop_thread)

\* an image download timed out with a status poll queued behind it
C16_Reached ==
  /\ last.op = "image" /\ last.request = Timeout
  /\ ~stop_thread /\ queue = <<StatusUpdateCmd>>

\* C17: once stop() has set the flag the worker exits, every HTTP call
\* returning within its timeout: a get() on the queue ends (a command, the
\* sentinel or Empty), the while test that follows the command being run
\* or taken sees the flag, and no command is taken after that test.
C17_StopEndsWorker ==
  /\ stop_thread ~> (thread = "exited")
  /\ [][(stop_thread /\ pc = "loop" /\ pc' # pc) => thread' = "exited"]_vars
  /\ [][thread = "exited" => (pc' = "exited" /\ thread' = "exited")]_vars

\* the worker left its loop within the join of stop(), in the middle of
\* deviceStopComm
C17_Reached == stop_thread /\ thread = "exited" /\ managed /\ last = WorkerStep

\* the None of stop() is queued behind the oldest command
SentinelBehindHead == \E i \in 2..Len(queue) : queue[i] = Sentinel

\* C18: a command queued after stop() has returned is accepted and never
\* executed: the call appends it to the queue, behind the None that stop()
\* queued, and whatever the worker takes once the flag is set is ahead of
\* that None, so was queued before stop() returned.
C18_QueuedAfterStopNeverRuns ==
  /\ [][(~managed /\ last' = QueuedStep) => queue' = Append(queue, StatusUpdateCmd)]_vars
  /\ [][(stop_thread /\ Dispatch) => SentinelBehindHead]_vars

\* a status poll was queued on a server object that deviceStopComm had
\* removed and whose worker had exited
C18_Reached ==
  /\ last = QueuedStep /\ ~managed /\ thread = "exited"
  /\ queue # <<>> /\ queue[Len(queue)] = StatusUpdateCmd

\* C19: when deviceStopComm has returned for the server device, no handler
\* of its worker is executing and connectionState stays 'Disabled'.
C19_StoppedWorkerIsQuiet ==
  ~managed => (pc \notin Handling /\ serverStates.connectionState = "Disabled")

\* the join of stop() expired during a poll: the root request was answered
\* after deviceStopComm had returned, and the worker wrote 'Connected'
C19_Reached ==
  /\ ~managed /\ last.op = "root" /\ Truthy(last.request)
  /\ serverStates.connectionState = "Connected"

\* C20: start() queues exactly one status poll, on the empty queue of a
\* fresh server object, and the first command its worker executes is a
\* status poll.
C20_StartQueuesOnePoll ==
  /\ [][(thread = "none" /\ thread' # "none") => queue' = <<StatusUpdateCmd>>]_vars
  /\ [][(command = Sentinel /\ Dispatch)
          => (command' = StatusUpdateCmd /\ pc' = "root")]_vars

\* the worker took its first command, the poll that start() queued
C20_Reached ==
  /\ Dispatched /\ pc = "root" /\ command = StatusUpdateCmd /\ queue = <<>>
  /\ serverStates.connectionState = "Starting" /\ root_failures = 0

\* ------------------------------------------------- the reconciliation roster
\* PlexServer.__init__ for a server device whose communication starts when
\* some of its client devices have started theirs: deviceStartComm found no
\* server object for them (plugin.py:193), and _child_devices starts empty.
RosterDevs == {"c1", "s1", "s2"}

InitEarly ==
  /\ login_required = FALSE
  /\ security_token = ""
  /\ bad_calls = 0
  /\ queue = <<>>
  /\ stop_thread = FALSE
  /\ thread = "none"
  /\ pc = "none"
  /\ command = Sentinel
  /\ headers = ""
  /\ child_devices = [k \in Keys |-> NoDev]
  /\ current_client_list = <<>>
  /\ managed = TRUE
  /\ client_devices \in SUBSET RosterDevs
  /\ serverStates = [connectionState |-> "Starting", serverIdentifier |-> "",
                     serverName |-> "", serverVersion |-> "",
                     transcoderActiveVideoSessions |-> 0,
                     activeSessionsCount |-> 0, connectedClientCount |-> 0]
  /\ devStates = [d \in Devs |-> FreshStates(d)]
  /\ cycle = NoCycle
  /\ root_failures = 0
  /\ conn_failures = 0
  /\ reauth = "no"
  /\ last = HostStep
  /\ signin_call = NoSignIn
  /\ command_id = [d \in Devs |-> 0]
  /\ loaded = [t \in Callers |-> NoLoad]
  /\ issued = [d \in Devs |-> <<>>]
  /\ started_after_stop = 0

\* Server and client devices with a key each start and stop in any order;
\* the polls find nobody playing.
NextRoster ==
  \/ Start
  \/ LoopCheck
  \/ QueueGetNothing
  \/ BeginCommand(NoSignIn)
  \/ \E r \in Answered(RootBodies) : RootStep(r)
  \/ \E r \in Answered(IdleClients) : ClientsStep(r)
  \/ \E r \in Answered(IdleSessions) : SessionsStep(r)
  \/ stop
  \/ DeviceStopCommServerEnd
  \/ QueueStatusUpdate
  \/ \E d \in RosterDevs : DeviceStartCommClient(d)
  \/ \E d \in RosterDevs : DeviceStopCommClient(d)

SpecRoster == InitEarly /\ [][NextRoster]_vars

\* C21: while the server device communicates, every client device that has
\* started and not stopped its communication is in the roster of the server
\* under its key, in whatever order the devices started.
C21_StartedClientsAreRegistered ==
  (managed /\ thread # "none")
    => \A d \in client_devices : child_devices[plexClientId(d)] = d

\* a poll reconciled the roster of a communicating server while the
\* Identified client, started before the server, was not in it
C21_Reached ==
  /\ managed /\ thread = "alive" /\ cycle.reconciled
  /\ "c1" \in client_devices /\ ~InRoster(child_devices, plexClientId("c1"))

\* ------------------------------------------------------- the clients step
\* the /clients request of the poll has just ended without a client list
ClientsFailed == pc = "clients" /\ last'.op = "clients" /\ Verdict(last'.request) # "ok"

\* C22: a /clients request that fails in any way, or answers a body that
\* cannot be parsed, leaves the failure counter and connectionState as they
\* were, and the poll goes on to its /status/sessions request.
C22_ClientsFailureIsBestEffort ==
  [][ClientsFailed
       => /\ bad_calls' = bad_calls
          /\ serverStates'.connectionState = serverStates.connectionState
          /\ pc' = "sessions"]_vars

\* the /clients request ended in a connection error, which _get counted
C22_Reached ==
  /\ last.op = "clients" /\ last.request = ConnectionError
  /\ pc = "sessions" /\ bad_calls = last.bad_before + 1

\* ------------------------------------------------------ percent complete
\* The Identified client plays one film, at any offset of any duration.
NextPercent ==
  \/ Start
  \/ LoopCheck
  \/ QueueGetNothing
  \/ BeginCommand(NoSignIn)
  \/ \E r \in Answered(RootBodies) : RootStep(r)
  \/ \E r \in Answered(IdleClients) : ClientsStep(r)
  \/ \E r \in Answered(PercentBodies) : SessionsStep(r)
  \/ QueueStatusUpdate
  \/ DeviceStartCommClient("c1")

SpecPercent == InitRecon /\ [][NextPercent]_vars

\* the session list of the poll that has just ended held one session, of the
\* player of the registered Identified client
OneSessionOfC1 ==
  /\ Reconciled /\ Len(LastSessions) = 1
  /\ child_devices[plexClientId("c1")] = "c1"
  /\ PlayerMachineId(LastSessions[1]) = plexClientId("c1")

LastOffset == ParseInt(Get(LastSessions[1].video_attributes, "viewOffset", "0"))
LastDuration == ParseInt(Get(LastSessions[1].video_attributes, "duration", "0"))

\* C23: the percent complete pushed to a device is 0 when the offset or the
\* duration is 0, and floor(100 * offset / duration) otherwise.
C23_PercentIsFloor ==
  OneSessionOfC1 =>
    devStates["c1"].currentlyPlayingContentPercentComplete =
      (IF LastOffset = 0 \/ LastDuration = 0 THEN 0
       ELSE (100 * LastOffset) \div LastDuration)

\* offset 29 of duration 50: the device shows 57 percent
C23_Reached ==
  /\ OneSessionOfC1 /\ LastOffset = 29 /\ LastDuration = 50
  /\ devStates["c1"].currentlyPlayingContentPercentComplete = 57

\* ------------------------------------------------------------- the title
TitleDevs == {"c1", "s1"}

\* One session on the Identified client's player, of any type, with or
\* without a grandparent title.
NextTitle ==
  \/ Start
  \/ LoopCheck
  \/ QueueGetNothing
  \/ BeginCommand(NoSignIn)
  \/ \E r \in Answered(RootBodies) : RootStep(r)
  \/ \E r \in Answered(IdleClients) : ClientsStep(r)
  \/ \E r \in Answered(TitleBodies) : SessionsStep(r)
  \/ QueueStatusUpdate
  \/ \E d \in TitleDevs : DeviceStartCommClient(d)
  \/ \E d \in TitleDevs : DeviceStopCommClient(d)

SpecTitle == InitRecon /\ [][NextTitle]_vars

\* C24: the title pushed to a matched device is '<grandparentTitle> : <title>'
\* for a session of type 'episode' with a grandparent title, and the title of
\* the session as it is in every other case.
C24_TitleOfSession ==
  (Reconciled /\ Len(LastSessions) = 1) =>
    \A d \in Registered(child_devices) :
       Matched(d) =>
         LET va == LastSessions[1].video_attributes
         IN  devStates[d].currentlyPlayingTitle =
               (IF Get(va, "type", "") = "episode" /\ Get(va, "grandparentTitle", "") # ""
                THEN va.grandparentTitle \o " : " \o va.title
                ELSE va.title)

\* a track with a grandparent title (its artist) was pushed to the slot
\* under its own title
C24_Reached ==
  /\ Reconciled /\ Len(LastSessions) = 1
  /\ LastSessions[1].video_attributes.grandparentTitle = "Show X"
  /\ Get(LastSessions[1].video_attributes, "type", "") = "track"
  /\ child_devices["Slot 1"] = "s1" /\ devStates["s1"].currentlyPlayingTitle = "Pilot"

\* ------------------------------------------------------------ command IDs
\* The Identified client is known at an address after a poll; playback
\* actions for it run on two threads, each call whole or interleaved with
\* the other thread's.
PlayerAnswers == {Response(200, Malformed), Timeout}

NextIds ==
  \/ Start
  \/ LoopCheck
  \/ QueueGetNothing
  \/ BeginCommand(NoSignIn)
  \/ \E r \in Answered(RootBodies) : RootStep(r)
  \/ \E r \in Answered({Xml(EmptyDict, <<ServerA>>)}) : ClientsStep(r)
  \/ \E r \in Answered({SessionsXml(<<PlayingMovie("0", "0")>>)}) : SessionsStep(r)
  \/ QueueStatusUpdate
  \/ \E r \in PlayerAnswers : SendClientPlaybackCommand("c1", NoSignIn, r)
  \/ \E t \in Callers : GetNextCommandIdLoad(t, "c1")
  \/ \E t \in Callers, r \in PlayerAnswers : SendClientPlaybackCommandStore(t, NoSignIn, r)
  \/ DeviceStartCommClient("c1")

SpecIds == InitRecon /\ [][NextIds]_vars

\* C25: the command IDs that one client object hands out are strictly
\* increasing, so none repeats, whatever threads the playback actions of the
\* device run on.
C25_CommandIdsIncrease ==
  \A d \in Devs : \A i, j \in DOMAIN issued[d] : i < j => issued[d][i] < issued[d][j]

\* two threads read _command_id = 0 before either wrote it: both of their
\* playback commands went out with commandID=1
C25_Reached ==
  /\ issued["c1"] = <<1, 1>> /\ command_id["c1"] = 1
  /\ last.op = "playback" /\ loaded = [t \in Callers |-> NoLoad]

SessionsAnswered == pc = "sessions" /\ last'.op = "sessions" /\ Truthy(last'.request)

\* the loop of _handle_sessions_response when that list was received
LoopStart ==
  [st |-> devStates, q |-> queue, new_client_list |-> <<>>,
   connected_clients |-> {}, raised |-> FALSE]

\* the loop when its first n sessions have been processed
LoopAfter(n) == ProcessSessions(LoopStart, child_devices, SubSeq(LastSessions', 1, n), 1)

\* C27: the update step of the session at ordinal k, with machine ID m, writes
\* the states of the device registered under m and of the device registered
\* under 'Slot k', and of no other device.
C27_SessionWritesItsCandidates ==
  [][SessionsAnswered =>
       \A k \in 1..Len(LastSessions') :
          LET m == PlayerMachineId(LastSessions'[k])
          IN  \A d \in Devs :
                 LoopAfter(k).st[d] # LoopAfter(k - 1).st[d]
                   => \/ (InRoster(child_devices, m) /\ child_devices[m] = d)
                      \/ child_devices[SlotLabel(k)] = d]_vars

\* the episode on the Identified client's player was pushed to that client,
\* and the song at ordinal 2 to the slot of ordinal 2
C27_Reached ==
  /\ Reconciled /\ Len(LastSessions) = 2
  /\ PlayerMachineId(LastSessions[1]) = "mA" /\ PlayerMachineId(LastSessions[2]) = "mB"
  /\ child_devices["mA"] = "c1" /\ child_devices["Slot 2"] = "s2"
  /\ devStates["c1"].currentlyPlayingTitle = "Show X : Pilot"
  /\ devStates["s2"].currentlyPlayingTitle = "Song"

\* the commands that the sessions step has just put on the queue
Added == SubSeq(queue', Len(queue) + 1, Len(queue'))

\* the keys that the sessions of the responses ask a metadata fetch for
MetadataKeys == {metadata_key(node.attrs) : node \in SessionNodes} \ {""}

\* C28: the reconciliation queues one metadata fetch for each session of type
\* 'track' with a parent key or of type 'episode' with a grandparent key, for
\* that key, and none for any other session.
C28_OneFetchPerSession ==
  [][(SessionsAnswered /\ cycle'.reconciled) =>
       /\ \A i \in DOMAIN Added : Added[i].command_type = "get_metadata"
       /\ \A key \in MetadataKeys :
            Cardinality({i \in DOMAIN Added : Added[i].payload[2] = key})
              = Cardinality({k \in DOMAIN LastSessions' :
                               metadata_key(LastSessions'[k].video_attributes) = key})
       /\ Cardinality({i \in DOMAIN Added : Added[i].payload[2] \notin MetadataKeys}) = 0]_vars

\* a song with a parent key played on a player that no registered device
\* matches: the poll ended with no metadata fetch queued
C28_Reached ==
  /\ Reconciled /\ Len(LastSessions) = 1 /\ PlayerMachineId(LastSessions[1]) = "mB"
  /\ metadata_key(LastSessions[1].video_attributes) = "/library/metadata/2"
  /\ ~InRoster(child_devices, "mB") /\ ~InRoster(child_devices, "Slot 1")
  /\ queue = <<>>

\* ------------------------------------------------------- session ordinals
\* the ordinal of the i-th record of a response: the Video records are
\* numbered first, in the order of the response, then the Track records
Ordinal(nodes, i) ==
  IF nodes[i].tag = "Video"
  THEN Cardinality({j \in 1..i : nodes[j].tag = "Video"})
  ELSE Cardinality({j \in DOMAIN nodes : nodes[j].tag = "Video"})
         + Cardinality({j \in 1..i : nodes[j].tag = "Track"})

\* C29: the sessions are numbered in the order the parser returns them, all
\* Video records first and then all Track records, whatever their order in
\* the response, and the device registered as 'Slot k' is bound to the record
\* numbered k.
C29_VideoBeforeTrack ==
  Reconciled =>
    LET nodes == last.request.body.nodes
    IN  \A i \in DOMAIN nodes :
           nodes[i].tag \in {"Video", "Track"} =>
             LET k == Ordinal(nodes, i)
             IN  /\ k \in DOMAIN LastSessions
                 /\ LastSessions[k].video_attributes = nodes[i].attrs
                 /\ InRoster(child_devices, SlotLabel(k)) =>
                      LET st == devStates[child_devices[SlotLabel(k)]]
                      IN  /\ st.clientId =
                               Get(Get(nodes[i].children, "Player", EmptyDict),
                                   "machineIdentifier", "")
                          /\ st.currentlyPlayingKey = Get(nodes[i].attrs, "key", "")

\* the response lists the track before the episode: the episode is session 1
\* and the Slot 2 device shows the track
C29_Reached ==
  /\ Reconciled
  /\ last.request.body.nodes = <<TrackSong, VideoEpisode>>
  /\ LastSessions[1].video_attributes = VideoEpisode.attrs
  /\ child_devices["Slot 2"] = "s2"
  /\ devStates["s2"].currentlyPlayingKey = "/library/metadata/22"

\* ------------------------------------------------------- the client list
\* The server polled with players listed by /clients while sessions come and
\* go, so that the Identified device is playing or 'disconnected' and the
\* slot is bound to one player or the other.
AddrSessions ==
  {SessionsXml(nodes) :
     nodes \in {<<>>, <<VideoEpisode>>, <<VideoMovie, TrackSong>>, <<TrackSong, VideoEpisode>>,
                <<VideoMovie, VideoEpisode>>}}

NextAddr ==
  \/ Start
  \/ LoopCheck
  \/ QueueGetNothing
  \/ BeginCommand(NoSignIn)
  \/ \E r \in Answered(RootBodies) : RootStep(r)
  \/ \E r \in Answered(ClientBodies) : ClientsStep(r)
  \/ \E r \in Answered(AddrSessions) : SessionsStep(r)
  \/ \E r \in Answered({Xml(EmptyDict, <<>>)}) : MetadataStep(r)
  \/ QueueStatusUpdate
  \/ \E d \in ReconDevs : DeviceStartCommClient(d)
  \/ \E d \in ReconDevs : DeviceStopCommClient(d)

SpecAddr == InitRecon /\ [][NextAddr]_vars

\* the clients step has just handled a response it could parse
ClientsAnswered ==
  pc = "clients" /\ last'.op = "clients" /\ Verdict(last'.request) = "ok"

\* the client record is for device d: d is the Identified device registered
\* under the record's machine ID and not 'disconnected', or a registered slot
\* bound to that machine ID
RecordIsFor(node, d) ==
  LET m == Get(node.attrs, "machineIdentifier", "")
  IN  /\ m # ""
      /\ \/ /\ ~IsSlot(d) /\ InRoster(child_devices, m) /\ child_devices[m] = d
            /\ devStates[d].clientConnectionStatus # "disconnected"
         \/ /\ IsSlot(d) /\ d \in Registered(child_devices)
            /\ devStates[d].clientId = m

\* C30: in the client-list step, a record with machine ID m gives its address
\* and port to the Identified device registered under m exactly when that
\* device is not 'disconnected', and to every registered slot bound to m; no
\* other device's address or port changes.
C30_ClientListAddresses ==
  [][ClientsAnswered =>
       LET nodes == last'.request.body.nodes
       IN  \A d \in Devs :
              LET mine == {i \in DOMAIN nodes :
                             nodes[i].tag = "Server" /\ RecordIsFor(nodes[i], d)}
              IN  IF mine = {}
                  THEN /\ devStates'[d].clientAddress = devStates[d].clientAddress
                       /\ devStates'[d].clientPort = devStates[d].clientPort
                  ELSE LET i == CHOOSE j \in mine : \A n \in mine : n <= j
                       IN  /\ devStates'[d].clientAddress = Get(nodes[i].attrs, "address", "")
                           /\ devStates'[d].clientPort = 3005]_vars

\* the list names both players: the 'disconnected' Identified device keeps
\* its empty address and the slot bound to the second player takes that
\* player's address
C30_Reached ==
  /\ last.op = "clients" /\ last.request.body.nodes = <<ServerA, ServerB>>
  /\ child_devices["mA"] = "c1" /\ child_devices["Slot 2"] = "s2"
  /\ devStates["c1"].clientConnectionStatus = "disconnected"
  /\ devStates["c1"].clientAddress = ""
  /\ devStates["s2"].clientId = "mB"
  /\ devStates["s2"].clientAddress = "10.0.0.2" /\ devStates["s2"].clientPort = 3005

\* ------------------------------------------------------ the genre backfill
\* The server polled while an episode or a track plays on the players of the
\* Identified device and of the second slot; the metadata requests are
\* answered with the show's directory, the album's, both or none.
GenreSessions ==
  {SessionsXml(nodes) :
     nodes \in {<<>>, <<VideoEpisode>>, <<VideoMovie, VideoEpisode>>, <<VideoMovie, TrackSong>>}}

GenreBodies == MetadataBodies \cup {Xml(EmptyDict, <<DirectoryShow, DirectoryAlbum>>)}

NextGenre ==
  \/ Start
  \/ LoopCheck
  \/ QueueGetNothing
  \/ BeginCommand(NoSignIn)
  \/ \E r \in Answered(RootBodies) : RootStep(r)
  \/ \E r \in Answered(IdleClients) : ClientsStep(r)
  \/ \E r \in Answered(GenreSessions) : SessionsStep(r)
  \/ \E r \in Answered(GenreBodies) : MetadataStep(r)
  \/ QueueStatusUpdate
  \/ \E d \in ReconDevs : DeviceStartCommClient(d)
  \/ \E d \in ReconDevs : DeviceStopCommClient(d)

SpecGenre == InitRecon /\ [][NextGenre]_vars

\* the metadata step has just handled a response it could parse
MetadataAnswered ==
  pc = "metadata" /\ last'.op = "metadata" /\ Verdict(last'.request) = "ok"

\* the directory is the parent of the track, or the grandparent of the
\* episode, that the registered device d shows
DirectoryIsFor(node, d) ==
  LET key == Get(node.attrs, "key", "")
      dir_media_key == CASE key = "/library/metadata/1/children" -> "/library/metadata/1"
                         [] key = "/library/metadata/2/children" -> "/library/metadata/2"
                         [] OTHER -> key
  IN  /\ d \in Registered(child_devices)
      /\ \/ /\ devStates[d].currentlyPlayingMediaType = "track"
            /\ devStates[d].currentlyPlayingParentKey = dir_media_key
         \/ /\ devStates[d].currentlyPlayingMediaType = "episode"
            /\ devStates[d].currentlyPlayingGrandparentKey = dir_media_key

C32_AtMostOneCommandAfterStop ==
  /\ started_after_stop <= 1
  /\ (started_after_stop = 1) => pc # "get"

\* stop() set the flag while the worker waited in get(): the worker took the
\* poll that was queued ahead of the None, ran it and exited
C32_Reached ==
  /\ started_after_stop = 1 /\ thread = "exited" /\ command = StatusUpdateCmd
  /\ cycle.sessions

\* ------------------------------------------- the roster during the scan
\* The server polled while the client devices start and stop, also in the
\* middle of a reconciliation.
RaceSessions ==
  {SessionsXml(nodes) : nodes \in {<<>>, <<VideoEpisode>>, <<TrackSong, VideoEpisode>>}}

NextRace ==
  \/ Start
  \/ LoopCheck
  \/ QueueGetNothing
  \/ BeginCommand(NoSignIn)
  \/ \E r \in Answered(RootBodies) : RootStep(r)
  \/ \E r \in Answered(IdleClients) : ClientsStep(r)
  \/ \E r \in Answered(RaceSessions) : SessionsStep(r)
  \/ \E r \in Answered(RaceSessions), d \in ReconDevs, visited \in SUBSET ReconDevs :
        SessionsStepRosterChanged(r, d, visited)
  \/ \E r \in Answered({Xml(EmptyDict, <<>>)}) : MetadataStep(r)
  \/ QueueStatusUpdate
  \/ \E d \in ReconDevs : DeviceStartCommClient(d)
  \/ \E d \in ReconDevs : DeviceStopCommClient(d)

SpecRace == InitRecon /\ [][NextRace]_vars

\* the players that the sessions name
Players(sessions) == {PlayerMachineId(sessions[k]) : k \in DOMAIN sessions} \ {""}

\* C33: every reconciliation that handles a parsed session list scans the
\* whole roster and writes connectedClientCount, also when a client device
\* is registered or unregistered on another thread meanwhile: afterwards
\* the count is that of the sessions naming a player, every Identified
\* device that stayed registered and whose player is in no session is
\* 'disconnected', and every slot that stayed registered beyond the last
\* session is 'disconnected' and unbound.
C33_ScanAlwaysCompletes ==
  [][SessionsAnswered =>
       /\ cycle'.reconciled
       /\ serverStates'.connectedClientCount = Len(ClientMenu(LastSessions'))
       /\ \A d \in Registered(child_devices) \cap Registered(child_devices') :
            IF IsSlot(d)
            THEN (child_devices'["Slot 2"] = d /\ Len(LastSessions') < 2)
                   => (/\ devStates'[d].clientConnectionStatus = "disconnected"
                       /\ devStates'[d].clientId = "")
            ELSE plexClientId(d) \notin Players(LastSessions')
                   => devStates'[d].clientConnectionStatus = "disconnected"]_vars

\* the Identified device was started while the worker scanned the roster:
\* the poll ended with the slot still bound to the player that has stopped
\* and with the count of the poll before
C33_Reached ==
  /\ last.op = "sessions" /\ Truthy(last.request) /\ ~cycle.reconciled
  /\ LastSessions = <<>>
  /\ child_devices["mA"] = "c1" /\ child_devices["Slot 2"] = "s2"
  /\ devStates["s2"].clientId = "mB"
  /\ serverStates.connectedClientCount = 2

\* --------------------------------------------------------- the scheduler
\* the status polls of the server that are queued or being executed
PollsPending ==
  Cardinality({i \in DOMAIN queue : queue[i] = StatusUpdateCmd})
    + (IF pc \in {"root", "clients", "sessions"} THEN 1 ELSE 0)

\* runConcurrentThread has just queued a status poll
PollScheduled == last' = QueuedStep /\ queue' = Append(queue, StatusUpdateCmd)

\* C34: the scheduler queues a status poll for a server only when no earlier
\* status poll of that server is queued or being executed; at most one is
\* pending or in flight at any time.
C34_OnePollAtATime ==
  [][PollScheduled => (PollsPending = 0 /\ PollsPending' = 1)]_vars

\* the poll that start() queued is waiting for its first answer,
\* last_update_time is still 0, and the scheduler has queued another poll
C34_Reached ==
  /\ last = QueuedStep /\ pc = "root" /\ queue = <<StatusUpdateCmd>>
  /\ serverStates.connectionState = "Starting" /\ root_failures = 0

\* --------------------------------------------------- the slot's address
\* the sessions step has just ended a poll whose client list was handled in
\* the step before
PollOfClientList ==
  /\ SessionsAnswered /\ cycle'.reconciled
  /\ last.op = "clients" /\ Verdict(last.request) = "ok"

\* C35: at the end of every poll, a connected slot has the address and port
\* that the client list of the poll reports for the machine ID the slot is
\* bound to, or none when the list does not name that machine; a slot never
\* has the machine ID of one player with the address of another.
C35_SlotAddressFollowsBinding ==
  [][PollOfClientList =>
       LET nodes == last.request.body.nodes
       IN  \A d \in Registered(child_devices) :
              (IsSlot(d) /\ devStates'[d].clientConnectionStatus # "disconnected") =>
                LET mine == {i \in DOMAIN nodes :
                               /\ nodes[i].tag = "Server"
                               /\ Get(nodes[i].attrs, "machineIdentifier", "")
                                    = devStates'[d].clientId}
                IN  IF mine = {}
                    THEN /\ devStates'[d].clientAddress = ""
                         /\ devStates'[d].clientPort = 0
                    ELSE \E i \in mine :
                            /\ devStates'[d].clientAddress = Get(nodes[i].attrs, "address", "")
                            /\ devStates'[d].clientPort = 3005]_vars

\* the poll ended with the slot bound to the second player and holding the
\* address that the client list gave for the first
C35_Reached ==
  /\ Reconciled /\ child_devices["Slot 2"] = "s2"
  /\ devStates["s2"].clientConnectionStatus = "connected"
  /\ devStates["s2"].clientId = "mB"
  /\ devStates["s2"].clientAddress = "10.0.0.1"

\* --------------------------------------------------- the token of a poll
\* this step is a request of the worker through _get
WorkerRequest == pc \in {"root", "clients", "sessions", "metadata"} /\ last'.op = pc

\* C36: once a 401 has invalidated the cached token, no later request of the
\* worker carries the invalidated token in its X-Plex-Token header, the other
\* requests of the same poll included: a request that carries a token carries
\* one that is still cached.
C36_NoRequestWithInvalidatedToken ==
  [][WorkerRequest => (headers = "" \/ security_token # "")]_vars

\* the root request of a poll was answered 401 and the clients request of the
\* same poll went out with the header built before it
C36_Reached ==
  /\ last.op = "clients" /\ last.token_before = "" /\ headers = "tok1"
  /\ cycle.root = "status"

\* ------------------------------------------------------- a shared key
\* Two Identified devices configured with the same machine ID start and stop
\* in any order on a running server; the polls find the player playing or
\* not.
KeyDevs == {"c1", "c2"}

NextKeys ==
  \/ Start
  \/ LoopCheck
  \/ QueueGetNothing
  \/ BeginCommand(NoSignIn)
  \/ \E r \in Answered(RootBodies) : RootStep(r)
  \/ \E r \in Answered(IdleClients) : ClientsStep(r)
  \/ \E r \in Answered({SessionsXml(<<>>), SessionsXml(<<VideoEpisode>>)}) : SessionsStep(r)
  \/ \E r \in Answered({Xml(EmptyDict, <<>>)}) : MetadataStep(r)
  \/ QueueStatusUpdate
  \/ \E d \in KeyDevs : DeviceStartCommClient(d)
  \/ \E d \in KeyDevs : DeviceStopCommClient(d)

SpecKeys == InitRecon /\ [][NextKeys]_vars

\* C37: unregister_client(d) removes the registration of d only: whatever
\* the register_client and unregister_client calls so far, a device that is
\* in the roster stays in it when another device is unregistered, also when
\* two devices have the same machine ID or slot label.
C37_UnregisterRemovesOnlyItself ==
  [][\A d \in client_devices \ client_devices' :
       \A e \in Registered(child_devices) \ {d} :
          e \in Registered(child_devices')]_vars

\* the first device with the machine ID was stopped after the second had
\* started: the second device communicates and the roster is empty
C37_Reached ==
  /\ managed /\ last = HostStep /\ client_devices = {"c2"}
  /\ Registered(child_devices) = {}

\* ------------------------------------------------ an unprocessable session
\* The server polled while the player of the Identified device shows a
\* programme whose duration is not a number, alone or with a song on a
\* second player.
NextBroken ==
  \/ Start
  \/ LoopCheck
  \/ QueueGetNothing
  \/ BeginCommand(NoSignIn)
  \/ \E r \in Answered(RootBodies) : RootStep(r)
  \/ \E r \in Answered(IdleClients) : ClientsStep(r)
  \/ \E r \in Answered(BrokenBodies \cup {SessionsXml(<<>>), SessionsXml(<<VideoEpisode>>)}) :
        SessionsStep(r)
  \/ \E r \in Answered({Xml(EmptyDict, <<>>)}) : MetadataStep(r)
  \/ QueueStatusUpdate
  \/ \E d \in ReconDevs : DeviceStartCommClient(d)
  \/ \E d \in ReconDevs : DeviceStopCommClient(d)

SpecBroken == InitRecon /\ [][NextBroken]_vars

\* int() accepts the duration and the viewOffset of the session
Processable(session) ==
  /\ IsIntText(Get(session.video_attributes, "duration", "0"))
  /\ IsIntText(Get(session.video_attributes, "viewOffset", "0"))

\* C38: a session that cannot be processed affects that session only: the
\* other sessions of the list are processed (the slot of a processable
\* session is bound to its player), the roster is scanned and
\* connectedClientCount is written in that cycle.
C38_BrokenSessionIsIsolated ==
  [][SessionsAnswered =>
       /\ cycle'.reconciled
       /\ serverStates'.connectedClientCount = Len(ClientMenu(LastSessions'))
       /\ \A k \in DOMAIN LastSessions' :
            (Processable(LastSessions'[k]) /\ InRoster(child_devices, SlotLabel(k)))
              => devStates'[child_devices[SlotLabel(k)]].clientId
                   = PlayerMachineId(LastSessions'[k])]_vars

\* the programme without a duration came first and ended the handler: the
\* song after it did not reach the second slot and the roster was not
\* scanned
C38_Reached ==
  /\ last.op = "sessions" /\ last.request.body.nodes = <<VideoLive, TrackSong>>
  /\ child_devices["mA"] = "c1" /\ child_devices["Slot 2"] = "s2"
  /\ ~cycle.reconciled
  /\ devStates["s2"].clientId # "mB"
  /\ serverStates.connectedClientCount # 2

\* ------------------------------------------------- the genre between polls
\* C39: once the metadata handler has filled in the genre of a device that
\* shows a track or an episode, a later poll in which the same item is still
\* playing on it leaves that genre as it is.
C39_BackfilledGenreStays ==
  [][(SessionsAnswered /\ cycle'.reconciled) =>
       \A d \in Registered(child_devices) :
          (/\ devStates[d].currentlyPlayingMediaType \in {"track", "episode"}
           /\ devStates[d].currentlyPlayingGenre # ""
           /\ devStates'[d].currentlyPlayingKey = devStates[d].currentlyPlayingKey
           /\ devStates'[d].clientConnectionStatus # "disconnected")
            => devStates'[d].currentlyPlayingGenre = devStates[d].currentlyPlayingGenre]_vars

\* the show's genre was filled in for the episode on both devices; the slot
\* was stopped and still shows it, and the next poll, the episode still
\* playing, left the Identified device without a genre
C39_Reached ==
  /\ Reconciled /\ child_devices["mA"] = "c1"
  /\ devStates["c1"].currentlyPlayingKey = "/library/metadata/11"
  /\ devStates["c1"].clientConnectionStatus = "playing"
  /\ devStates["c1"].currentlyPlayingGenre = ""
  /\ "s2" \notin Registered(child_devices)
  /\ devStates["s2"].currentlyPlayingKey = "/library/metadata/11"
  /\ devStates["s2"].currentlyPlayingGenre = "Comedy"

\* ------------------------------------------------ failures between polls
\* A server with the Identified device and both slots registered, taken up
\* when its first poll has found an episode and a song and has queued a
\* metadata fetch for each of the three devices; from there the server may
\* be unreachable for any request but the root request.
StreakDevs == {"c1", "s1", "s2"}

StreakRoster ==
  register_client(register_client(register_client([k \in Keys |-> NoDev], "c1"), "s1"), "s2")

StreakBody == SessionsXml(<<VideoEpisode, TrackSong>>)

\* the device stores after that first poll: the three handlers of
\* _do_status_update, one after the other
StreakWorld ==
  LET w0 == [st |-> [d \in Devs |->
                       IF d \in StreakDevs
                       THEN [FreshStates(d) EXCEPT !.clientConnectionStatus = "disconnected"]
                       ELSE FreshStates(d)],
             q |-> <<>>,
             server |-> [connectionState |-> "Starting", serverIdentifier |-> "",
                         serverName |-> "", serverVersion |-> "",
                         transcoderActiveVideoSessions |-> 0,
                         activeSessionsCount |-> 0, connectedClientCount |-> 0],
             current_client_list |-> <<>>,
             reconciled |-> FALSE]
      w1 == handle_server_info_response(w0, CHOOSE b \in RootBodies : TRUE)
      w2 == handle_client_list_response(w1, StreakRoster, Xml(EmptyDict, <<>>))
  IN  handle_sessions_response(w2, StreakRoster, StreakBody)

InitStreak ==
  /\ login_required = FALSE
  /\ security_token = ""
  /\ bad_calls = 0
  /\ queue = StreakWorld.q
  /\ stop_thread = FALSE
  /\ thread = "alive"
  /\ pc = "loop"
  /\ command = StatusUpdateCmd
  /\ headers = ""
  /\ child_devices = StreakRoster
  /\ current_client_list = StreakWorld.current_client_list
  /\ managed = TRUE
  /\ client_devices = StreakDevs
  /\ serverStates = StreakWorld.server
  /\ devStates = StreakWorld.st
  /\ cycle = [root |-> "ok", clients |-> TRUE, sessions |-> TRUE, reconciled |-> TRUE]
  /\ root_failures = 0
  /\ conn_failures = 0
  /\ reauth = "no"
  /\ last = Step("sessions", Response(200, StreakBody), "")
  /\ signin_call = NoSignIn
  /\ command_id = [d \in Devs |-> 0]
  /\ loaded = [t \in Callers |-> NoLoad]
  /\ issued = [d \in Devs |-> <<>>]
  /\ started_after_stop = 0

NextStreak ==
  \/ LoopCheck
  \/ QueueGetNothing
  \/ BeginCommand(NoSignIn)
  \/ \E r \in Answered(RootBodies) : RootStep(r)
  \/ \E r \in Answered(IdleClients) \cup {ConnectionError} : ClientsStep(r)
  \/ \E r \in Answered({SessionsXml(<<>>), SessionsXml(<<VideoEpisode>>)}) \cup {ConnectionError} :
        SessionsStep(r)
  \/ \E r \in Raising({Xml(EmptyDict, <<>>)}) : MetadataStep(r)
  \/ QueueStatusUpdate

SpecStreak == InitStreak /\ [][NextStreak]_vars

\* the sessions step ends a poll whose root request was answered with a
\* server node
PollEndsAfterGoodRoot == pc = "sessions" /\ pc' = "loop" /\ cycle.root = "ok"

\* C40: whenever the root request of a status poll succeeds and its body
\* parses as a server node, connectionState is 'Connected' at the end of that
\* poll, whatever it was before.
C40_GoodRootMeansConnected ==
  [][PollEndsAfterGoodRoot => serverStates'.connectionState = "Connected"]_vars

\* three metadata fetches, then the clients and the sessions request of the
\* next poll, ended in a connection error: the poll whose root request was
\* answered ended 'Disconnected'
C40_Reached ==
  /\ PollEnded /\ cycle.root = "ok" /\ last.request = ConnectionError
  /\ last.bad_before = 4
  /\ serverStates.connectionState = "Disconnected"
====
